---- MODULE Spec2Model ----
(***************************************************************************)
(* goglob: shell pattern matching similar to golang's path.Match.          *)
(*                                                                         *)
(* The model has two parts, both taken from goglob-common/src/lib.rs:      *)
(*   - scan_patterns, the scanner that compiles a pattern string into      *)
(*     tokens or a positioned error (record sc, one action per phase of    *)
(*     the main loop and one per iteration of the 'char_cls loop);         *)
(*   - GlobPattern::_matches, the matcher (record m, one action per        *)
(*     iteration of the 'outer loop and one per iteration of 'star).       *)
(* A string is a sequence of Unicode scalar values (integers); positions   *)
(* reported by the scanner and used by the matcher are UTF-8 byte offsets. *)
(***************************************************************************)
EXTENDS Integers, Sequences, FiniteSets, TLC

VARIABLES pattern, name, sc, m

vars == <<pattern, name, sc, m>>

(***************************************************************************)
(* Characters                                                              *)
(***************************************************************************)
Star == 42
Minus == 45
Slash == 47
Question == 63
LBracket == 91
Backslash == 92
RBracket == 93
Caret == 94
ChA == 97
ChB == 98
ChSmiley == 9786

\* usize::MAX, the position of Error::empty_pattern(); as a machine word it
\* is the residue -1, which is no byte offset of any string.
UsizeMax == -1

\* char::len_utf8
Utf8Len(c) == IF c < 128 THEN 1 ELSE IF c < 2048 THEN 2 ELSE IF c < 65536 THEN 3 ELSE 4

\* The byte offset of the k-th character (1-based) of s, as str::char_indices
\* reports it; for k = Len(s) + 1 it is the byte length of s.
RECURSIVE ByteOff(_, _)
ByteOff(s, k) == IF k <= 1 THEN 0 ELSE ByteOff(s, k - 1) + Utf8Len(s[k - 1])

ByteLen(s) == ByteOff(s, Len(s) + 1)

\* &s[i..] for a byte offset i: the suffix that starts at the character whose
\* byte offset is i (the slice panics when i is no character boundary, and
\* then no k exists).
SliceFrom(s, i) ==
    LET k == CHOOSE k \in 1..(Len(s) + 1) : ByteOff(s, k) = i
    IN  SubSeq(s, k, Len(s))

\* str::contains('/')
ContainsSlash(s) == \E k \in 1..Len(s) : s[k] = Slash

(***************************************************************************)
(* Tokens, class items and errors                                          *)
(***************************************************************************)
SeqWildcard == [type |-> "SeqWildcard"]
SingleWildcard == [type |-> "SingleWildcard"]
\* Literal::new and CharClass::new own their data (Cow::Owned).
Literal(text) == [type |-> "Literal", text |-> text, cow |-> "Owned"]
CharClass(negated, matches) ==
    [type |-> "CharClass", negated |-> negated, matches |-> matches, cow |-> "Owned"]

Single(c) == [type |-> "Single", c |-> c]
Range(lo, hi) == [type |-> "Range", lo |-> lo, hi |-> hi]

\* The conversion that accepts every range, as type_from_range_unchecked does.
RangeTryFromUnchecked(lo, hi) == <<Range(lo, hi)>>

\* TryFrom<RangeInclusive<char>>: an empty range (lo > hi) is rejected.
RangeTryFrom(lo, hi) == IF lo <= hi THEN <<Range(lo, hi)>> ELSE <<>>

\* Error { error_type, pos }; chars holds the payload of the error type.
Error(kind, chars, pos) == [kind |-> kind, chars |-> chars, pos |-> pos]
EmptyPatternError == Error("EmptyPattern", <<>>, UsizeMax)
NoError == <<>>

(***************************************************************************)
(* The rendering of errors. A message is the sequence of its parts: the    *)
(* pieces of fixed text, the position in decimal digits, and the           *)
(* characters of the payload.                                              *)
(***************************************************************************)
Digit0 == 48

\* The decimal digits of usize::MAX on a 64-bit target: 18446744073709551615.
UsizeMaxDecimal ==
    [j \in 1..20 |-> Digit0 + <<1, 8, 4, 4, 6, 7, 4, 4, 0, 7, 3, 7, 0, 9, 5, 5, 1, 6, 1, 5>>[j]]

\* `{pos}`: the decimal digits of a usize, as characters.
RECURSIVE Decimal(_)
Decimal(n) ==
    IF n = UsizeMax THEN UsizeMaxDecimal
    ELSE IF n < 10 THEN <<Digit0 + n>>
    ELSE Decimal(n \div 10) \o <<Digit0 + (n % 10)>>

\* ErrorType::type_desc
TypeDesc(kind) ==
    CASE kind = "EmptyPattern" -> <<"empty pattern">>
      [] kind = "IllegalEscape" -> <<"illegal use of '\\': end of pattern">>
      [] kind = "InvalidRangeValues" -> <<"invalid character range">>
      [] kind = "UnclosedCharClass" -> <<"character class opened with '[' isn't closed">>
      [] kind = "UnescapedChar" -> <<"special character not escaped with '\\'">>

\* ErrorType::fmt_with_pos; pos is Some(<<p>>) or None (<<>>).
FmtWithPos(kind, chars, pos) ==
    CASE kind = "IllegalEscape" /\ pos # <<>> ->
            <<"illegal use of '\\' at ", Decimal(pos[1]), ": end of pattern">>
      [] kind = "InvalidRangeValues" /\ pos # <<>> ->
            <<"invalid charater range at ", Decimal(pos[1]), ": ",
              <<chars[1]>>, "-", <<chars[2]>>>>
      [] kind = "InvalidRangeValues" /\ pos = <<>> ->
            <<"invalid charater range: ", <<chars[1]>>, "-", <<chars[2]>>>>
      [] kind = "UnclosedCharClass" /\ pos # <<>> ->
            <<"character class opened with '[' at ", Decimal(pos[1]), " isn't closed">>
      [] kind = "UnescapedChar" /\ pos # <<>> ->
            <<"special character ", <<chars[1]>>, " at ", Decimal(pos[1]),
              " not escaped with '\\'">>
      [] kind = "UnescapedChar" /\ pos = <<>> ->
            <<"special character ", <<chars[1]>>, " not escaped with '\\'">>
      [] OTHER -> TypeDesc(kind)

\* Display for Error: fmt_with_pos(Some(self.pos)).
DisplayError(e) == FmtWithPos(e.kind, e.chars, <<e.pos>>)

(***************************************************************************)
(* scan_patterns                                                           *)
(***************************************************************************)
\* The scanner's locals. pos is the 1-based index of the character that
\* pattern_iter.peek() returns (Len(pattern) + 1 when the iterator is empty).
ScanInit ==
    [pc |-> "start", pos |-> 1, tokens |-> <<>>, err |-> NoError,
     types |-> <<>>, negated |-> FALSE, closed |-> FALSE,
     start_i |-> 0, closed_i |-> UsizeMax,
     start_range |-> FALSE, in_range |-> <<>>]

Fail(s, e) == [s EXCEPT !.pc = "err", !.err = <<e>>]

\* `while pattern_iter.peek().is_some()`: another round of the main loop, or Ok(()).
LoopHead(p, s) == [s EXCEPT !.pc = IF s.pos <= Len(p) THEN "stars" ELSE "ok"]

\* scan_patterns without the check for the empty pattern.
EmptyCheckSkip(p, s) == LoopHead(p, s)

\* `if pattern.is_empty() { return Err(Error::empty_pattern()) }`
EmptyCheck(p, s) ==
    IF p = <<>> THEN Fail(s, EmptyPatternError) ELSE LoopHead(p, s)

\* The index of the first character at or after pos that is not c.
RECURSIVE RunEnd(_, _, _)
RunEnd(p, pos, c) ==
    IF pos <= Len(p) /\ p[pos] = c THEN RunEnd(p, pos + 1, c) ELSE pos

\* The star phase that pushes one SeqWildcard per '*'.
StarsPhaseDup(p, s) ==
    LET e == RunEnd(p, s.pos, Star)
    IN  [s EXCEPT !.pc = "literal", !.pos = e,
                  !.tokens = @ \o [k \in 1..(e - s.pos) |-> SeqWildcard]]

\* Match star wildcards: a run of '*' pushes one SeqWildcard.
StarsPhase(p, s) ==
    LET e == RunEnd(p, s.pos, Star)
    IN  [s EXCEPT !.pc = "literal", !.pos = e,
                  !.tokens = IF e > s.pos THEN Append(@, SeqWildcard) ELSE @]

\* The 'literal loop that takes a ']' as a literal character.
RECURSIVE LiteralRunLax(_, _, _)
LiteralRunLax(p, pos, acc) ==
    IF pos > Len(p) THEN [pos |-> pos, text |-> acc, err |-> NoError]
    ELSE LET c == p[pos] IN
         CASE c \in {LBracket, Question, Star} ->
                [pos |-> pos, text |-> acc, err |-> NoError]
           [] c = Backslash ->
                IF pos + 1 > Len(p)
                THEN [pos |-> pos + 1, text |-> acc,
                      err |-> <<Error("IllegalEscape", <<>>, ByteOff(p, pos))>>]
                ELSE LiteralRunLax(p, pos + 2, Append(acc, p[pos + 1]))
           [] OTHER -> LiteralRunLax(p, pos + 1, Append(acc, c))

\* The 'literal loop that takes a final backslash as a literal character.
RECURSIVE LiteralRunTrailing(_, _, _)
LiteralRunTrailing(p, pos, acc) ==
    IF pos > Len(p) THEN [pos |-> pos, text |-> acc, err |-> NoError]
    ELSE LET c == p[pos] IN
         CASE c = RBracket ->
                [pos |-> pos, text |-> acc,
                 err |-> <<Error("UnescapedChar", <<RBracket>>, ByteOff(p, pos))>>]
           [] c \in {LBracket, Question, Star} ->
                [pos |-> pos, text |-> acc, err |-> NoError]
           [] c = Backslash ->
                IF pos + 1 > Len(p)
                THEN [pos |-> pos + 1, text |-> Append(acc, c), err |-> NoError]
                ELSE LiteralRunTrailing(p, pos + 2, Append(acc, p[pos + 1]))
           [] OTHER -> LiteralRunTrailing(p, pos + 1, Append(acc, c))

\* The 'literal loop that keeps the backslash of an escape in the text.
RECURSIVE LiteralRunKeepEscape(_, _, _)
LiteralRunKeepEscape(p, pos, acc) ==
    IF pos > Len(p) THEN [pos |-> pos, text |-> acc, err |-> NoError]
    ELSE LET c == p[pos] IN
         CASE c = RBracket ->
                [pos |-> pos, text |-> acc,
                 err |-> <<Error("UnescapedChar", <<RBracket>>, ByteOff(p, pos))>>]
           [] c \in {LBracket, Question, Star} ->
                [pos |-> pos, text |-> acc, err |-> NoError]
           [] c = Backslash ->
                IF pos + 1 > Len(p)
                THEN [pos |-> pos + 1, text |-> acc,
                      err |-> <<Error("IllegalEscape", <<>>, ByteOff(p, pos))>>]
                ELSE LiteralRunKeepEscape(p, pos + 2, acc \o <<c, p[pos + 1]>>)
           [] OTHER -> LiteralRunKeepEscape(p, pos + 1, Append(acc, c))

\* The 'literal loop: the run of literal characters from pos on, with the
\* position it stops at and the error it returns, if any.
RECURSIVE LiteralRun(_, _, _)
LiteralRun(p, pos, acc) ==
    IF pos > Len(p) THEN [pos |-> pos, text |-> acc, err |-> NoError]
    ELSE LET c == p[pos] IN
         CASE c = RBracket ->
                [pos |-> pos, text |-> acc,
                 err |-> <<Error("UnescapedChar", <<RBracket>>, ByteOff(p, pos))>>]
           [] c \in {LBracket, Question, Star} ->
                [pos |-> pos, text |-> acc, err |-> NoError]
           [] c = Backslash ->
                IF pos + 1 > Len(p)
                THEN [pos |-> pos + 1, text |-> acc,
                      err |-> <<Error("IllegalEscape", <<>>, ByteOff(p, pos))>>]
                ELSE LiteralRun(p, pos + 2, Append(acc, p[pos + 1]))
           [] OTHER -> LiteralRun(p, pos + 1, Append(acc, c))

\* Match literals: a non-empty run pushes one Literal.
LiteralPhase(p, s) ==
    LET r == LiteralRun(p, s.pos, <<>>)
    IN  IF r.err # NoError THEN Fail([s EXCEPT !.pos = r.pos], r.err[1])
        ELSE [s EXCEPT !.pc = "question", !.pos = r.pos,
                       !.tokens = IF r.text # <<>> THEN Append(@, Literal(r.text)) ELSE @]

\* Match question-mark wildcards: one SingleWildcard per '?'.
QuestionPhase(p, s) ==
    LET e == RunEnd(p, s.pos, Question)
    IN  [s EXCEPT !.pc = "class", !.pos = e,
                  !.tokens = @ \o [k \in 1..(e - s.pos) |-> SingleWildcard]]

\* `if let Some((i, '[')) = pattern_iter.peek()`: open a character class and
\* read its negation mark; without a '[' the main loop goes round.
ClassOpen(p, s) ==
    IF s.pos <= Len(p) /\ p[s.pos] = LBracket
    THEN LET neg == s.pos + 1 <= Len(p) /\ p[s.pos + 1] = Caret
         IN  [s EXCEPT !.pc = "char_cls",
                       !.types = <<>>, !.negated = neg, !.closed = FALSE,
                       !.start_i = ByteOff(p, s.pos), !.closed_i = UsizeMax,
                       !.pos = IF neg THEN s.pos + 2 ELSE s.pos + 1,
                       !.start_range = FALSE, !.in_range = <<>>]
    ELSE LoopHead(p, s)

\* The code after the 'char_cls loop without the check for an empty class.
ClassEndAllowEmpty(p, s) ==
    IF ~s.closed THEN Fail(s, Error("UnclosedCharClass", <<>>, s.start_i))
    ELSE LoopHead(p, [s EXCEPT !.tokens = Append(@, CharClass(s.negated, s.types))])

\* The code after the 'char_cls loop that reports an unclosed class at
\* closed_i instead of start_i.
ClassEndUnclosedAtClose(p, s) ==
    IF ~s.closed THEN Fail(s, Error("UnclosedCharClass", <<>>, s.closed_i))
    ELSE IF s.types = <<>>
    THEN Fail(s, Error("UnescapedChar", <<RBracket>>, s.closed_i))
    ELSE LoopHead(p, [s EXCEPT !.tokens = Append(@, CharClass(s.negated, s.types))])

\* The code after the 'char_cls loop: the class must be closed and non-empty.
ClassEnd(p, s) ==
    IF ~s.closed THEN Fail(s, Error("UnclosedCharClass", <<>>, s.start_i))
    ELSE IF s.types = <<>>
    THEN Fail(s, Error("UnescapedChar", <<RBracket>>, s.closed_i))
    ELSE LoopHead(p, [s EXCEPT !.tokens = Append(@, CharClass(s.negated, s.types))])

\* The member handling that opens a range after every member, whatever
\* character follows.
ClassMemberEager(p, s, i, c, pos) ==
    IF s.in_range # <<>>
    THEN LET start == s.in_range[1]
             range == RangeTryFrom(start, c)
         IN  IF range = <<>>
             THEN Fail([s EXCEPT !.pos = pos],
                       Error("InvalidRangeValues", <<start, c>>, i))
             ELSE [s EXCEPT !.pos = pos, !.types = Append(@, range[1]),
                            !.in_range = <<>>]
    ELSE IF pos <= Len(p)
    THEN [s EXCEPT !.pos = pos, !.in_range = <<c>>, !.start_range = TRUE]
    ELSE [s EXCEPT !.pos = pos, !.types = Append(@, Single(c))]

\* The tail of one 'char_cls iteration, for the class character c read at
\* byte offset i, with the iterator now at pos: close a pending range, start
\* one when a '-' follows, or push the single character.
ClassMember(p, s, i, c, pos) ==
    IF s.in_range # <<>>
    THEN LET start == s.in_range[1]
             range == RangeTryFrom(start, c)
         IN  IF range = <<>>
             THEN Fail([s EXCEPT !.pos = pos],
                       Error("InvalidRangeValues", <<start, c>>, i))
             ELSE [s EXCEPT !.pos = pos, !.types = Append(@, range[1]),
                            !.in_range = <<>>]
    ELSE IF pos <= Len(p) /\ p[pos] = Minus
    THEN [s EXCEPT !.pos = pos, !.in_range = <<c>>, !.start_range = TRUE]
    ELSE [s EXCEPT !.pos = pos, !.types = Append(@, Single(c))]

\* The 'char_cls iteration that takes a '-' outside a range as a member.
CharClsIterMinusMember(p, s) ==
    IF s.pos > Len(p) THEN ClassEnd(p, s)
    ELSE LET i == ByteOff(p, s.pos)
             c == p[s.pos]
             pos == s.pos + 1
         IN  CASE s.start_range /\ c # Minus ->
                    \* debug_assert!(!start_range || c == '-')
                    [s EXCEPT !.pc = "panic", !.pos = pos]
               [] c = RBracket ->
                    ClassEnd(p, [s EXCEPT !.pos = pos, !.closed = TRUE, !.closed_i = i])
               [] c = Minus /\ ~s.start_range ->
                    ClassMember(p, s, i, c, pos)
               [] c = Minus /\ s.start_range ->
                    [s EXCEPT !.pos = pos, !.start_range = FALSE]
               [] c = Backslash ->
                    IF pos > Len(p)
                    THEN Fail([s EXCEPT !.pos = pos], Error("IllegalEscape", <<>>, i))
                    ELSE ClassMember(p, s, i, p[pos], pos + 1)
               [] OTHER -> ClassMember(p, s, i, c, pos)

\* The 'char_cls iteration in which every '^' toggles the negation.
CharClsIterCaretToggles(p, s) ==
    IF s.pos > Len(p) THEN ClassEnd(p, s)
    ELSE LET i == ByteOff(p, s.pos)
             c == p[s.pos]
             pos == s.pos + 1
         IN  CASE s.start_range /\ c # Minus ->
                    \* debug_assert!(!start_range || c == '-')
                    [s EXCEPT !.pc = "panic", !.pos = pos]
               [] c = RBracket ->
                    ClassEnd(p, [s EXCEPT !.pos = pos, !.closed = TRUE, !.closed_i = i])
               [] c = Minus /\ ~s.start_range ->
                    Fail([s EXCEPT !.pos = pos], Error("UnescapedChar", <<Minus>>, i))
               [] c = Minus /\ s.start_range ->
                    [s EXCEPT !.pos = pos, !.start_range = FALSE]
               [] c = Backslash ->
                    IF pos > Len(p)
                    THEN Fail([s EXCEPT !.pos = pos], Error("IllegalEscape", <<>>, i))
                    ELSE ClassMember(p, s, i, p[pos], pos + 1)
               [] c = Caret -> [s EXCEPT !.pos = pos, !.negated = ~s.negated]
               [] OTHER -> ClassMember(p, s, i, c, pos)

\* One iteration of `'char_cls: while let Some((i, c)) = pattern_iter.next()`,
\* and the code after the loop when the iteration leaves it.
CharClsIter(p, s) ==
    IF s.pos > Len(p) THEN ClassEnd(p, s)
    ELSE LET i == ByteOff(p, s.pos)
             c == p[s.pos]
             pos == s.pos + 1
         IN  CASE s.start_range /\ c # Minus ->
                    \* debug_assert!(!start_range || c == '-')
                    [s EXCEPT !.pc = "panic", !.pos = pos]
               [] c = RBracket ->
                    ClassEnd(p, [s EXCEPT !.pos = pos, !.closed = TRUE, !.closed_i = i])
               [] c = Minus /\ ~s.start_range ->
                    Fail([s EXCEPT !.pos = pos], Error("UnescapedChar", <<Minus>>, i))
               [] c = Minus /\ s.start_range ->
                    [s EXCEPT !.pos = pos, !.start_range = FALSE]
               [] c = Backslash ->
                    IF pos > Len(p)
                    THEN Fail([s EXCEPT !.pos = pos], Error("IllegalEscape", <<>>, i))
                    ELSE ClassMember(p, s, i, p[pos], pos + 1)
               [] OTHER -> ClassMember(p, s, i, c, pos)

ScanRunning(s) == s.pc \notin {"ok", "err", "panic"}

\* One step of scan_patterns.
ScanStep(p, s) ==
    CASE s.pc = "start" -> EmptyCheck(p, s)
      [] s.pc = "stars" -> StarsPhase(p, s)
      [] s.pc = "literal" -> LiteralPhase(p, s)
      [] s.pc = "question" -> QuestionPhase(p, s)
      [] s.pc = "class" -> ClassOpen(p, s)
      [] s.pc = "char_cls" -> CharClsIter(p, s)

\* scan_patterns run to its return, as GlobPattern::_new calls it.
RECURSIVE ScanFrom(_, _)
ScanFrom(p, s) == IF ScanRunning(s) THEN ScanFrom(p, ScanStep(p, s)) ELSE s

Compile(p) == ScanFrom(p, ScanInit)

(***************************************************************************)
(* Matching one token                                                      *)
(***************************************************************************)
\* Option<&str>, and the Err(()) with which the SeqWildcard answers.
Some(rest) == [tag |-> "Some", rest |-> rest]
None == [tag |-> "None"]
Err == [tag |-> "Err"]

\* CharClassType::matches
CharClassTypeMatches(cct, character) ==
    IF cct.type = "Single" THEN cct.c = character
    ELSE cct.lo <= character /\ character <= cct.hi

\* CharClass::matches_char that leaves the negation out.
MatchesCharIgnoreNegated(cc, character) ==
    \E k \in 1..Len(cc.matches) : CharClassTypeMatches(cc.matches[k], character)

\* CharClass::matches_char
MatchesChar(cc, character) ==
    (\E k \in 1..Len(cc.matches) : CharClassTypeMatches(cc.matches[k], character))
        # cc.negated

\* str::strip_prefix with a string prefix
StripPrefixStr(nm, prefix) ==
    IF Len(prefix) <= Len(nm) /\ SubSeq(nm, 1, Len(prefix)) = prefix
    THEN Some(SubSeq(nm, Len(prefix) + 1, Len(nm)))
    ELSE None

\* try_matches_next whose SingleWildcard strips any character, '/' too.
TryMatchesNextAnyChar(token, nm) ==
    CASE token.type = "Literal" -> StripPrefixStr(nm, token.text)
      [] token.type = "CharClass" ->
            IF nm # <<>> /\ MatchesChar(token, Head(nm)) THEN Some(Tail(nm)) ELSE None
      [] token.type = "SingleWildcard" ->
            IF nm # <<>> THEN Some(Tail(nm)) ELSE None
      [] token.type = "SeqWildcard" -> Err

\* try_matches_next whose CharClass refuses '/' as a SingleWildcard does.
TryMatchesNextClassNoSlash(token, nm) ==
    CASE token.type = "Literal" -> StripPrefixStr(nm, token.text)
      [] token.type = "CharClass" ->
            IF nm # <<>> /\ Head(nm) # Slash /\ MatchesChar(token, Head(nm))
            THEN Some(Tail(nm)) ELSE None
      [] token.type = "SingleWildcard" ->
            IF nm # <<>> /\ Head(nm) # Slash THEN Some(Tail(nm)) ELSE None
      [] token.type = "SeqWildcard" -> Err

\* GlobToken::try_matches_next
TryMatchesNext(token, nm) ==
    CASE token.type = "Literal" -> StripPrefixStr(nm, token.text)
      [] token.type = "CharClass" ->
            IF nm # <<>> /\ MatchesChar(token, Head(nm)) THEN Some(Tail(nm)) ELSE None
      [] token.type = "SingleWildcard" ->
            IF nm # <<>> /\ Head(nm) # Slash THEN Some(Tail(nm)) ELSE None
      [] token.type = "SeqWildcard" -> Err

(***************************************************************************)
(* GlobPattern::_matches                                                   *)
(***************************************************************************)
\* The matcher's locals. ti counts the tokens the iterator `tokens` has
\* yielded; k is the 1-based index of the character the 'star loop is at;
\* result is empty until _matches returns, ret names the return statement.
\* tried and star_len record, for the SeqWildcard being resolved, the offsets
\* tried so far and the length of `next` when the 'star loop was entered.
MatchIdle ==
    [pc |-> "idle", next |-> <<>>, ti |-> 0, k |-> 0, result |-> <<>>,
     ret |-> "none", tried |-> <<>>, star_len |-> 0]

MatchInit(nm) == [MatchIdle EXCEPT !.pc = "outer", !.next = nm]

Return(ms, b, site) == [ms EXCEPT !.pc = "done", !.result = <<b>>, !.ret = site]

\* The 'inner loop: match the tokens after cursor tp against np up to the
\* next SeqWildcard or the end of the tokens.
RECURSIVE InnerLoop(_, _, _)
InnerLoop(tokens, tp, np) ==
    IF tp >= Len(tokens)
    THEN [tokens_peek |-> tp, next_peek |-> np, fail |-> FALSE, finished |-> TRUE]
    ELSE LET r == TryMatchesNext(tokens[tp + 1], np) IN
         CASE r.tag = "Some" -> InnerLoop(tokens, tp + 1, r.rest)
           [] r.tag = "None" ->
                [tokens_peek |-> tp, next_peek |-> np, fail |-> TRUE, finished |-> TRUE]
           [] r.tag = "Err" ->
                [tokens_peek |-> tp, next_peek |-> np, fail |-> FALSE, finished |-> FALSE]

\* The 'outer iteration with a final SeqWildcard that accepts any rest.
OuterIterLastStarAny(tokens, ms) ==
    IF ms.ti >= Len(tokens) THEN Return(ms, ms.next = <<>>, "end")
    ELSE LET token == tokens[ms.ti + 1]
             r == TryMatchesNext(token, ms.next)
             ti == ms.ti + 1
         IN  CASE r.tag = "Some" -> [ms EXCEPT !.ti = ti, !.next = r.rest]
               [] r.tag = "None" -> Return([ms EXCEPT !.ti = ti], FALSE, "token")
               [] r.tag = "Err" ->
                    IF ti >= Len(tokens)
                    THEN Return([ms EXCEPT !.ti = ti], TRUE, "last_star")
                    ELSE IF ms.next = <<>>
                    THEN Return([ms EXCEPT !.ti = ti, !.tried = <<>>, !.star_len = 0],
                                FALSE, "exhausted")
                    ELSE [ms EXCEPT !.pc = "star", !.ti = ti, !.k = 1,
                                    !.tried = <<>>, !.star_len = Len(ms.next)]

\* The 'outer iteration that returns true once the tokens are used up,
\* whatever is left of the string.
OuterIterPrefix(tokens, ms) ==
    IF ms.ti >= Len(tokens) THEN Return(ms, TRUE, "end")
    ELSE LET token == tokens[ms.ti + 1]
             r == TryMatchesNext(token, ms.next)
             ti == ms.ti + 1
         IN  CASE r.tag = "Some" -> [ms EXCEPT !.ti = ti, !.next = r.rest]
               [] r.tag = "None" -> Return([ms EXCEPT !.ti = ti], FALSE, "token")
               [] r.tag = "Err" ->
                    IF ti >= Len(tokens)
                    THEN Return([ms EXCEPT !.ti = ti], ~ContainsSlash(ms.next), "last_star")
                    ELSE IF ms.next = <<>>
                    THEN Return([ms EXCEPT !.ti = ti, !.tried = <<>>, !.star_len = 0],
                                FALSE, "exhausted")
                    ELSE [ms EXCEPT !.pc = "star", !.ti = ti, !.k = 1,
                                    !.tried = <<>>, !.star_len = Len(ms.next)]

\* One iteration of `'outer: while let Some(token) = tokens.next()`, and the
\* final `next.is_empty()` when the tokens are used up.
OuterIter(tokens, ms) ==
    IF ms.ti >= Len(tokens) THEN Return(ms, ms.next = <<>>, "end")
    ELSE LET token == tokens[ms.ti + 1]
             r == TryMatchesNext(token, ms.next)
             ti == ms.ti + 1
         IN  CASE r.tag = "Some" -> [ms EXCEPT !.ti = ti, !.next = r.rest]
               [] r.tag = "None" -> Return([ms EXCEPT !.ti = ti], FALSE, "token")
               [] r.tag = "Err" ->
                    IF ti >= Len(tokens)
                    THEN Return([ms EXCEPT !.ti = ti], ~ContainsSlash(ms.next), "last_star")
                    ELSE IF ms.next = <<>>
                    THEN Return([ms EXCEPT !.ti = ti, !.tried = <<>>, !.star_len = 0],
                                FALSE, "exhausted")
                    ELSE [ms EXCEPT !.pc = "star", !.ti = ti, !.k = 1,
                                    !.tried = <<>>, !.star_len = Len(ms.next)]

\* The 'star iteration without the `if c == '/' { break 'star }`.
StarIterCross(tokens, ms) ==
    LET i == ByteOff(ms.next, ms.k)
        c == ms.next[ms.k]
        a == InnerLoop(tokens, ms.ti, SliceFrom(ms.next, i))
        here == [ms EXCEPT !.tried = Append(@, i)]
    IN  IF ~a.fail /\ (~a.finished \/ a.next_peek = <<>>)
        THEN [here EXCEPT !.pc = "outer", !.ti = a.tokens_peek, !.next = a.next_peek]
        ELSE IF ms.k >= Len(ms.next) THEN Return(here, FALSE, "exhausted")
        ELSE [here EXCEPT !.k = ms.k + 1]

\* The 'star iteration that tries the same offset again after a failure.
StarIterRetry(tokens, ms) ==
    LET i == ByteOff(ms.next, ms.k)
        c == ms.next[ms.k]
        a == InnerLoop(tokens, ms.ti, SliceFrom(ms.next, i))
        here == [ms EXCEPT !.tried = Append(@, i)]
    IN  IF ~a.fail /\ (~a.finished \/ a.next_peek = <<>>)
        THEN [here EXCEPT !.pc = "outer", !.ti = a.tokens_peek, !.next = a.next_peek]
        ELSE IF c = Slash THEN Return(here, FALSE, "slash")
        ELSE here

\* The 'star iteration that gives up at a '/' before trying the segment there.
StarIterBeforeSlash(tokens, ms) ==
    LET i == ByteOff(ms.next, ms.k)
        c == ms.next[ms.k]
        a == InnerLoop(tokens, ms.ti, SliceFrom(ms.next, i))
        here == [ms EXCEPT !.tried = Append(@, i)]
    IN  IF c = Slash THEN Return(ms, FALSE, "slash")
        ELSE IF ~a.fail /\ (~a.finished \/ a.next_peek = <<>>)
        THEN [here EXCEPT !.pc = "outer", !.ti = a.tokens_peek, !.next = a.next_peek]
        ELSE IF c = Slash THEN Return(here, FALSE, "slash")
        ELSE IF ms.k >= Len(ms.next) THEN Return(here, FALSE, "exhausted")
        ELSE [here EXCEPT !.k = ms.k + 1]

\* The 'star iteration whose attempt works on the outer cursor and string.
StarIterShared(tokens, ms) ==
    LET i == ByteOff(ms.next, ms.k)
        c == ms.next[ms.k]
        a == InnerLoop(tokens, ms.ti, SliceFrom(ms.next, i))
        here == [ms EXCEPT !.tried = Append(@, i), !.ti = a.tokens_peek]
    IN  IF ~a.fail /\ (~a.finished \/ a.next_peek = <<>>)
        THEN [here EXCEPT !.pc = "outer", !.ti = a.tokens_peek, !.next = a.next_peek]
        ELSE IF c = Slash THEN Return(here, FALSE, "slash")
        ELSE IF ms.k >= Len(ms.next) THEN Return(here, FALSE, "exhausted")
        ELSE [here EXCEPT !.k = ms.k + 1]

\* The 'star iteration that, on an accepted attempt, puts the outer cursor
\* back before the SeqWildcard.
StarIterRewind(tokens, ms) ==
    LET i == ByteOff(ms.next, ms.k)
        c == ms.next[ms.k]
        a == InnerLoop(tokens, ms.ti, SliceFrom(ms.next, i))
        here == [ms EXCEPT !.tried = Append(@, i)]
    IN  IF ~a.fail /\ (~a.finished \/ a.next_peek = <<>>)
        THEN [here EXCEPT !.pc = "outer", !.ti = ms.ti - 1, !.next = a.next_peek]
        ELSE IF c = Slash THEN Return(here, FALSE, "slash")
        ELSE IF ms.k >= Len(ms.next) THEN Return(here, FALSE, "exhausted")
        ELSE [here EXCEPT !.k = ms.k + 1]

\* One iteration of `'star: for (i, c) in next.char_indices()`.
StarIter(tokens, ms) ==
    LET i == ByteOff(ms.next, ms.k)
        c == ms.next[ms.k]
        a == InnerLoop(tokens, ms.ti, SliceFrom(ms.next, i))
        here == [ms EXCEPT !.tried = Append(@, i)]
    IN  IF ~a.fail /\ (~a.finished \/ a.next_peek = <<>>)
        THEN [here EXCEPT !.pc = "outer", !.ti = a.tokens_peek, !.next = a.next_peek]
        ELSE IF c = Slash THEN Return(here, FALSE, "slash")
        ELSE IF ms.k >= Len(ms.next) THEN Return(here, FALSE, "exhausted")
        ELSE [here EXCEPT !.k = ms.k + 1]

\* One step of _matches.
MatchStep(tokens, ms) ==
    CASE ms.pc = "outer" -> OuterIter(tokens, ms)
      [] ms.pc = "star" -> StarIter(tokens, ms)

\* _matches run to its return.
RECURSIVE MatchFrom(_, _)
MatchFrom(tokens, ms) ==
    IF ms.pc \in {"outer", "star"} THEN MatchFrom(tokens, MatchStep(tokens, ms)) ELSE ms

\* GlobPattern::matches
Matches(tokens, nm) == MatchFrom(tokens, MatchInit(nm)).result[1]

(***************************************************************************)
(* Inputs                                                                  *)
(***************************************************************************)
MaxPatLen == 4
MaxClassLen == 4
MaxPieces == 3
MaxNameLen == 3

SeqsUpTo(S, n) == UNION {[1..l -> S] : l \in 0..n}

\* Patterns for the scanner: every string over the special characters, an
\* ordinary one and a multi-byte one, and every '[' followed by a longer
\* class body.
PatAlphabet ==
    {Star, Question, LBracket, RBracket, Caret, Minus, Backslash, ChA, ChSmiley}
ClassAlphabet ==
    {RBracket, Caret, Minus, Backslash, ChA, ChB, ChSmiley}
Patterns ==
    SeqsUpTo(PatAlphabet, MaxPatLen)
        \cup {<<LBracket>> \o b : b \in SeqsUpTo(ClassAlphabet, MaxClassLen)}

\* Patterns for the matcher: concatenations of pieces that each compile.
Pieces ==
    { <<Star>>, <<Question>>, <<ChA>>, <<Slash>>, <<ChSmiley>>,
      <<LBracket, Caret, ChA, RBracket>>,
      <<LBracket, Slash, Minus, ChA, RBracket>> }

RECURSIVE Concat(_)
Concat(ss) == IF ss = <<>> THEN <<>> ELSE Head(ss) \o Concat(Tail(ss))

MatchPatterns == {Concat(ps) : ps \in SeqsUpTo(Pieces, MaxPieces)} \ {<<>>}

NameAlphabet == {ChA, Slash, ChSmiley}
Names == SeqsUpTo(NameAlphabet, MaxNameLen)

(***************************************************************************)
(* The scanner, step by step                                               *)
(***************************************************************************)
InitScan ==
    /\ pattern \in Patterns
    /\ name = <<>>
    /\ sc = ScanInit
    /\ m = MatchIdle

ScanEmptyCheck ==
    /\ sc.pc = "start"
    /\ sc' = EmptyCheck(pattern, sc)
    /\ UNCHANGED <<pattern, name, m>>

ScanStars ==
    /\ sc.pc = "stars"
    /\ sc' = StarsPhase(pattern, sc)
    /\ UNCHANGED <<pattern, name, m>>

ScanLiteral ==
    /\ sc.pc = "literal"
    /\ sc' = LiteralPhase(pattern, sc)
    /\ UNCHANGED <<pattern, name, m>>

ScanQuestion ==
    /\ sc.pc = "question"
    /\ sc' = QuestionPhase(pattern, sc)
    /\ UNCHANGED <<pattern, name, m>>

ScanClassOpen ==
    /\ sc.pc = "class"
    /\ sc' = ClassOpen(pattern, sc)
    /\ UNCHANGED <<pattern, name, m>>

ScanCharCls ==
    /\ sc.pc = "char_cls"
    /\ sc' = CharClsIter(pattern, sc)
    /\ UNCHANGED <<pattern, name, m>>

NextScan ==
    \/ ScanEmptyCheck
    \/ ScanStars
    \/ ScanLiteral
    \/ ScanQuestion
    \/ ScanClassOpen
    \/ ScanCharCls

SpecScan == InitScan /\ [][NextScan]_vars

(***************************************************************************)
(* The matcher, step by step, on a compiled pattern                        *)
(***************************************************************************)
InitMatch ==
    /\ pattern \in MatchPatterns
    /\ sc = Compile(pattern)
    /\ sc.pc = "ok"
    /\ name \in Names
    /\ m = MatchInit(name)

MatchOuter ==
    /\ m.pc = "outer"
    /\ m' = OuterIter(sc.tokens, m)
    /\ UNCHANGED <<pattern, name, sc>>

MatchStar ==
    /\ m.pc = "star"
    /\ m' = StarIter(sc.tokens, m)
    /\ UNCHANGED <<pattern, name, sc>>

NextMatch ==
    \/ MatchOuter
    \/ MatchStar

SpecMatch == InitMatch /\ [][NextMatch]_vars

(***************************************************************************)
(* Properties of the matcher (SpecMatch)                                   *)
(***************************************************************************)
Tokens == sc.tokens
Returned == m.pc = "done"
NoSlashIn(s) == \A j \in 1..Len(s) : s[j] # Slash
HasSeqWildcard(tokens) == \E j \in 1..Len(tokens) : tokens[j].type = "SeqWildcard"

\* The class accepts the character: it is listed (as a single character or
\* inside an inclusive range) and the class is not negated, or the reverse.
Accepts(cc, c) ==
    LET listed == \E j \in 1..Len(cc.matches) :
                     \/ cc.matches[j].type = "Single" /\ cc.matches[j].c = c
                     \/ cc.matches[j].type = "Range"
                            /\ cc.matches[j].lo <= c /\ c <= cc.matches[j].hi
    IN  IF cc.negated THEN ~listed ELSE listed

\* s can be split into consecutive pieces, one per token in order: a Literal
\* piece is the literal text, a CharClass piece one accepted character, a
\* SingleWildcard piece one character other than '/', a SeqWildcard piece any
\* string without '/'.
RECURSIVE CanSplit(_, _)
CanSplit(tokens, s) ==
    IF tokens = <<>> THEN s = <<>>
    ELSE LET t == Head(tokens)
             rest == Tail(tokens)
         IN  CASE t.type = "Literal" ->
                    /\ Len(t.text) <= Len(s)
                    /\ SubSeq(s, 1, Len(t.text)) = t.text
                    /\ CanSplit(rest, SubSeq(s, Len(t.text) + 1, Len(s)))
               [] t.type = "CharClass" ->
                    s # <<>> /\ Accepts(t, s[1]) /\ CanSplit(rest, Tail(s))
               [] t.type = "SingleWildcard" ->
                    s # <<>> /\ s[1] # Slash /\ CanSplit(rest, Tail(s))
               [] t.type = "SeqWildcard" ->
                    \E n \in 0..Len(s) :
                        NoSlashIn(SubSeq(s, 1, n)) /\ CanSplit(rest, SubSeq(s, n + 1, Len(s)))

\* C1: soundness of matching. When matches returns true, the candidate splits
\* into consecutive pieces, one per token, each piece allowed by its token,
\* with no '/' in any wildcard piece.
C1_Sound == (Returned /\ m.result = <<TRUE>>) => CanSplit(Tokens, name)

\* A match through a SeqWildcard that stands for a non-empty piece, on a
\* candidate that contains a '/'.
C1_Witness ==
    /\ Returned /\ m.result = <<TRUE>>
    /\ m.tried # <<>> /\ m.tried[Len(m.tried)] > 0
    /\ ContainsSlash(name)

\* C2: completeness of the greedy search. When the candidate splits into
\* pieces allowed by the tokens, matches returns true.
C2_Complete == (Returned /\ CanSplit(Tokens, name)) => m.result = <<TRUE>>

\* The variant of _matches: tokens not yet yielded weigh more than any
\* position of the 'star loop, and every step lowers it.
Variant(ms) ==
    IF ms.pc = "done" THEN 0
    ELSE (Len(Tokens) - ms.ti) * (Len(name) + 2)
            + (IF ms.pc = "star" THEN Len(ms.next) - ms.k + 1 ELSE Len(name) + 1)

C3_StateOK(ms) ==
    /\ ms.pc \in {"outer", "star", "done"}
    /\ (ms.pc = "done") = (ms.result # <<>>)
    /\ ms.result \in {<<>>, <<TRUE>>, <<FALSE>>}
    /\ ms.pc = "star" => ms.k \in 1..Len(ms.next)
    /\ Len(ms.tried) <= ms.star_len
    /\ \A j \in 1..Len(ms.tried) : \A l \in 1..Len(ms.tried) :
            j < l => ms.tried[j] < ms.tried[l]
    /\ Variant(ms) >= 0

\* C3: matches is total. Every step is well defined and lowers a non-negative
\* variant, so _matches returns, and it returns a boolean; while one
\* SeqWildcard is resolved no offset is tried twice and at most one offset per
\* character of the remaining string is tried.
C3_Total ==
    [][C3_StateOK(m) /\ C3_StateOK(m') /\ Variant(m') < Variant(m)]_vars

\* A 'star loop that gave up after trying every character of a string of at
\* least two characters, one of them multi-byte.
C3_Witness ==
    /\ Returned /\ m.ret = "exhausted"
    /\ Len(m.tried) = m.star_len /\ m.star_len >= 2
    /\ \E j \in 1..Len(name) : name[j] = ChSmiley

\* C4: a final SeqWildcard reached with the rest r of the candidate makes
\* matches return whether r is free of '/'; so the pattern "*" matches
\* exactly the candidates without '/'.
C4_LastStar ==
    [][/\ (m.pc = "outer" /\ m.ti + 1 = Len(Tokens)
              /\ Tokens[Len(Tokens)].type = "SeqWildcard")
          => (m'.pc = "done" /\ m'.result = <<NoSlashIn(m.next)>>)
       /\ (pattern = <<Star>> /\ m'.pc = "done")
          => m'.result = <<NoSlashIn(name)>>]_vars

\* The final SeqWildcard accepted a non-empty rest after earlier tokens had
\* consumed a prefix.
C4_Witness ==
    /\ Returned /\ m.ret = "last_star" /\ m.result = <<TRUE>>
    /\ Len(Tokens) >= 2 /\ m.next # <<>> /\ Len(m.next) < Len(name)

\* Apply the tokens in order to s: what is left, or None.
RECURSIVE Consume(_, _)
Consume(tokens, s) ==
    IF tokens = <<>> THEN Some(s)
    ELSE LET r == TryMatchesNext(Head(tokens), s)
         IN  IF r.tag = "Some" THEN Consume(Tail(tokens), r.rest) ELSE None

\* C5: a match covers the whole candidate. Without a SeqWildcard, matches is
\* true iff the tokens in order consume the candidate and leave nothing; then
\* no proper prefix of the candidate and no extension of it matches.
C5_WholeCandidate ==
    (Returned /\ ~HasSeqWildcard(Tokens)) =>
        /\ m.result = <<Consume(Tokens, name) = Some(<<>>)>>
        /\ m.result = <<TRUE>> =>
              /\ \A n \in 0..(Len(name) - 1) : ~Matches(Tokens, SubSeq(name, 1, n))
              /\ \A c \in NameAlphabet : ~Matches(Tokens, Append(name, c))

\* The tokens were used up with part of the candidate left over: rejected.
C5_Witness ==
    /\ Returned /\ ~HasSeqWildcard(Tokens)
    /\ m.ret = "end" /\ m.result = <<FALSE>> /\ m.next # <<>>

\* C6: a SingleWildcard strips exactly one character, of whatever byte
\* length, when that character is not '/', and fails on the empty string and
\* on a leading '/'.
C6_SingleWildcard ==
    [][(m.pc = "outer" /\ m.ti < Len(Tokens)
            /\ Tokens[m.ti + 1].type = "SingleWildcard")
       => IF m.next # <<>> /\ m.next[1] # Slash
          THEN /\ m'.pc = "outer" /\ m'.ti = m.ti + 1
               /\ m'.next = SubSeq(m.next, 2, Len(m.next))
               /\ ByteLen(m'.next) = ByteLen(m.next) - Utf8Len(m.next[1])
          ELSE m'.pc = "done" /\ m'.result = <<FALSE>>]_vars

\* A SingleWildcard has just consumed a three-byte character.
C6_Witness ==
    /\ m.pc = "outer" /\ m.ti >= 1 /\ m.ti <= Len(Tokens)
    /\ Tokens[m.ti].type = "SingleWildcard"
    /\ \A j \in 1..Len(Tokens) : Tokens[j].type # "SeqWildcard"
    /\ Len(m.next) < Len(name)
    /\ name[Len(name) - Len(m.next)] = ChSmiley

(***************************************************************************)
(* Properties of the scanner (SpecScan)                                    *)
(***************************************************************************)
ScanReturned == sc.pc \in {"ok", "err"}
Failed == sc.pc = "err"
IsCharBoundary(s, i) == \E k \in 1..Len(s) : ByteOff(s, k) = i

\* C7: compile fails with EmptyPattern exactly when the pattern is empty;
\* that error carries the 'no position' value, every other error the byte
\* offset of a character of the pattern.
C7_EmptyPattern ==
    /\ sc.pc \in {"ok", "err", "panic"} =>
          ((Failed /\ sc.err[1].kind = "EmptyPattern") <=> pattern = <<>>)
    /\ Failed =>
          IF sc.err[1].kind = "EmptyPattern"
          THEN sc.err[1].pos = UsizeMax /\ ~IsCharBoundary(pattern, sc.err[1].pos)
          ELSE /\ sc.err[1].pos # UsizeMax
               /\ 0 <= sc.err[1].pos /\ sc.err[1].pos < ByteLen(pattern)
               /\ IsCharBoundary(pattern, sc.err[1].pos)

\* The empty pattern has been rejected.
C7_Witness == Failed /\ pattern = <<>> /\ sc.err[1].kind = "EmptyPattern"

NoAdjacentSeq(tokens) ==
    \A j \in 1..(Len(tokens) - 1) :
        ~(tokens[j].type = "SeqWildcard" /\ tokens[j + 1].type = "SeqWildcard")

\* C8: no two SeqWildcard tokens are ever adjacent, and the star phase that
\* finds a '*' consumes the whole run of '*' and pushes exactly one
\* SeqWildcard for it, in whichever round of the main loop it runs.
C8_OneSeqPerRun ==
    [][/\ NoAdjacentSeq(sc'.tokens)
       /\ (sc.pc = "stars" /\ sc.pos <= Len(pattern) /\ pattern[sc.pos] = Star)
          => /\ sc'.tokens = Append(sc.tokens, SeqWildcard)
             /\ sc'.pos > sc.pos
             /\ \A j \in sc.pos..(sc'.pos - 1) : pattern[j] = Star
             /\ sc'.pos <= Len(pattern) => pattern[sc'.pos] # Star]_vars

\* A run of two '*' reached in the second round of the main loop, compiled
\* into one SeqWildcard.
C8_Witness ==
    /\ sc.pc = "ok" /\ Len(pattern) >= 3
    /\ pattern[1] = ChA /\ pattern[2] = Star /\ pattern[3] = Star
    /\ Len(sc.tokens) >= 2 /\ sc.tokens[2] = SeqWildcard

\* C9: a ']' read while the class has no item closes the class and makes
\* compile fail with UnescapedChar(']') at the byte offset of that ']' (so
\* does the ']' directly after '[' or '[^'); every CharClass token has at
\* least one item.
C9_NonEmptyClass ==
    [][/\ \A j \in 1..Len(sc'.tokens) :
              sc'.tokens[j].type = "CharClass" => sc'.tokens[j].matches # <<>>
       /\ (sc.pc = "class" /\ sc'.pc = "char_cls")
          => /\ sc'.types = <<>>
             /\ pattern[sc'.pos - 1] = LBracket
                    \/ (pattern[sc'.pos - 1] = Caret /\ pattern[sc'.pos - 2] = LBracket)
       /\ (sc.pc = "char_cls" /\ sc.pos <= Len(pattern)
              /\ pattern[sc.pos] = RBracket /\ sc.types = <<>>)
          => /\ sc'.pc = "err"
             /\ sc'.err = <<Error("UnescapedChar", <<RBracket>>, ByteOff(pattern, sc.pos))>>]_vars

\* A negated class that closed with zero items, after a multi-byte character.
C9_Witness ==
    /\ Failed /\ sc.closed /\ sc.types = <<>> /\ sc.negated
    /\ pattern[1] = ChSmiley
    /\ sc.err[1].pos = sc.closed_i /\ sc.closed_i = sc.start_i + 2

\* C10: a class that closes directly after a range-forming '-' (the range
\* still waiting for its upper bound) makes compile fail.
C10_TrailingMinus == (sc.closed /\ sc.in_range # <<>>) => Failed

\* The 'char_cls loop is about to read the character c of the pattern.
ClassReads(c) == sc.pc = "char_cls" /\ sc.pos <= Len(pattern) /\ pattern[sc.pos] = c

\* The character at index k of p is preceded by a backslash that escapes it.
RECURSIVE EscapedAt(_, _)
EscapedAt(p, k) == k > 1 /\ p[k - 1] = Backslash /\ ~EscapedAt(p, k - 1)

\* C11: inside a class an unescaped '-' that is the first character after
\* '[' or '[^', that follows a range-forming '-', or that follows a completed
\* range makes compile fail with UnescapedChar('-') at the byte offset of
\* that '-'.
C11_IllegalMinus ==
    [][(/\ ClassReads(Minus)
        /\ \/ sc.types = <<>> /\ sc.in_range = <<>>
                /\ ByteOff(pattern, sc.pos) = sc.start_i + (IF sc.negated THEN 2 ELSE 1)
           \/ sc.in_range # <<>> /\ pattern[sc.pos - 1] = Minus
                /\ ~EscapedAt(pattern, sc.pos - 1)
           \/ sc.in_range = <<>> /\ sc.types # <<>>
                /\ sc.types[Len(sc.types)].type = "Range")
       => /\ sc'.pc = "err"
          /\ sc'.err = <<Error("UnescapedChar", <<Minus>>, ByteOff(pattern, sc.pos))>>]_vars

\* A '-' directly after a completed range has been rejected.
C11_Witness ==
    /\ Failed /\ sc.err[1].kind = "UnescapedChar" /\ sc.err[1].chars = <<Minus>>
    /\ sc.types # <<>> /\ sc.types[Len(sc.types)].type = "Range"
    /\ sc.err[1].pos > 3

AllRanges(tokens) ==
    {tokens[j].matches[l] : <<j, l>> \in
        {x \in (1..Len(tokens)) \X (1..4 * (MaxPatLen + MaxClassLen)) :
            /\ tokens[x[1]].type = "CharClass"
            /\ x[2] <= Len(tokens[x[1]].matches)
            /\ tokens[x[1]].matches[x[2]].type = "Range"}}

\* C12: every Range item has lo <= hi. The character that ends a pending
\* range lo-hi either pushes Range(lo, hi), when lo <= hi (lo = hi included),
\* or makes compile fail with InvalidRangeValues(lo, hi); the conversion of
\* an empty range is rejected.
C12_RangeOrdered ==
    [][/\ \A r \in AllRanges(sc'.tokens) : r.lo <= r.hi
       /\ \A j \in 1..Len(sc'.types) :
              sc'.types[j].type = "Range" => sc'.types[j].lo <= sc'.types[j].hi
       /\ \A c \in PatAlphabet \cup ClassAlphabet :
            (ClassReads(c) /\ c \notin {RBracket, Minus, Backslash} /\ sc.in_range # <<>>)
            => LET lo == sc.in_range[1] IN
               IF lo <= c
               THEN /\ sc'.pc = "char_cls"
                    /\ sc'.types = Append(sc.types, Range(lo, c))
                    /\ RangeTryFrom(lo, c) # <<>>
               ELSE /\ sc'.pc = "err"
                    /\ sc'.err[1].kind = "InvalidRangeValues"
                    /\ sc'.err[1].chars = <<lo, c>>
                    /\ RangeTryFrom(lo, c) = <<>>]_vars

\* A range written with lo > hi has been rejected.
C12_Witness ==
    /\ Failed /\ sc.err[1].kind = "InvalidRangeValues"
    /\ sc.err[1].chars = <<ChB, ChA>>

\* C13: a class still open when the pattern ends makes compile fail with
\* UnclosedCharClass at the byte offset of its '[', which start_i holds from
\* the opening on.
C13_Unclosed ==
    [][/\ (sc.pc = "class" /\ sc'.pc = "char_cls")
          => pattern[sc.pos] = LBracket /\ sc'.start_i = ByteOff(pattern, sc.pos)
       /\ (sc.pc = "char_cls" /\ sc'.pc = "char_cls") => sc'.start_i = sc.start_i
       /\ (sc.pc = "char_cls" /\ sc.pos > Len(pattern))
          => /\ sc'.pc = "err"
             /\ sc'.err = <<Error("UnclosedCharClass", <<>>, sc.start_i)>>
             /\ \E k \in 1..Len(pattern) :
                    ByteOff(pattern, k) = sc.start_i /\ pattern[k] = LBracket]_vars

\* A class opened after a multi-byte character and a literal was never closed.
C13_Witness ==
    /\ Failed /\ sc.err[1].kind = "UnclosedCharClass"
    /\ sc.err[1].pos = 4 /\ pattern[1] = ChSmiley /\ sc.tokens # <<>>

\* The characters that end a literal run when they are not escaped.
LiteralStop == {LBracket, Question, Star, RBracket}

\* The literal run that starts at index from reaches index k: nothing before
\* k ends it.
RunReaches(p, from, k) ==
    /\ from <= k /\ k <= Len(p)
    /\ \A j \in from..(k - 1) : EscapedAt(p, j) \/ p[j] \notin LiteralStop

\* C14: an unescaped ']' outside a class makes compile fail at once with
\* UnescapedChar(']') at the byte offset of that ']', whatever tokens were
\* scanned before it.
C14_StrayBracket ==
    [][\A k \in 1..Len(pattern) :
          (/\ sc.pc = "literal" /\ RunReaches(pattern, sc.pos, k)
           /\ pattern[k] = RBracket /\ ~EscapedAt(pattern, k))
          => /\ sc'.pc = "err" /\ sc'.tokens = sc.tokens
             /\ sc'.err = <<Error("UnescapedChar", <<RBracket>>, ByteOff(pattern, k))>>]_vars

\* A ']' after a complete class has been rejected.
C14_Witness ==
    /\ Failed /\ sc.err = <<Error("UnescapedChar", <<RBracket>>, 3)>>
    /\ Len(sc.tokens) = 1 /\ sc.tokens[1].type = "CharClass"
    /\ Len(pattern) = 4 /\ pattern[3] = RBracket /\ pattern[4] = RBracket

\* The scan has read the whole pattern: it returned Ok, or it failed at or
\* after the last character.
ReadToEnd(s) == s.pc \in {"ok", "err"} /\ s.pos > Len(pattern)

IllegalEscapeAt(s, k) ==
    /\ s.pc = "err"
    /\ s.err = <<Error("IllegalEscape", <<>>, ByteOff(pattern, k))>>

\* C15 as stated: a backslash that is the last character of the pattern, in
\* a literal run or inside a class, makes compile fail with IllegalEscape at
\* the byte offset of that backslash. It fails on the pattern of two
\* backslashes, which compiles to the literal of one backslash.
C15_Original ==
    [][LET last == Len(pattern) IN
       (last >= 1 /\ pattern[last] = Backslash) =>
          /\ (\/ sc.pc = "literal" /\ RunReaches(pattern, sc.pos, last)
              \/ sc.pc = "char_cls" /\ sc.pos = last)
             => IllegalEscapeAt(sc', last)
          /\ ReadToEnd(sc') => IllegalEscapeAt(sc', last)]_vars

\* C15, amended: a backslash that is the last character of the pattern and
\* is not itself escaped by the backslash before it makes compile fail with
\* IllegalEscape at the byte offset of that backslash: the step that reads
\* it, in a literal run or inside a class, fails so, and no scan that reads
\* the whole pattern ends otherwise.
C15_TrailingBackslash ==
    [][LET last == Len(pattern) IN
       (last >= 1 /\ pattern[last] = Backslash /\ ~EscapedAt(pattern, last)) =>
          /\ (\/ sc.pc = "literal" /\ RunReaches(pattern, sc.pos, last)
              \/ sc.pc = "char_cls" /\ sc.pos = last)
             => IllegalEscapeAt(sc', last)
          /\ ReadToEnd(sc') => IllegalEscapeAt(sc', last)]_vars

\* A backslash that ends the pattern inside a class, after a multi-byte
\* member, has been rejected.
C15_Witness ==
    /\ Failed /\ sc.err = <<Error("IllegalEscape", <<>>, 4)>>
    /\ pattern = <<LBracket, ChSmiley, Backslash>>

\* The text without the backslash of each escape.
RECURSIVE Unesc(_)
Unesc(s) ==
    IF s = <<>> THEN <<>>
    ELSE IF Head(s) # Backslash THEN <<Head(s)>> \o Unesc(Tail(s))
    ELSE IF Len(s) = 1 THEN <<>>
    ELSE <<s[2]>> \o Unesc(SubSeq(s, 3, Len(s)))

\* The text without each escape and the character it escapes.
RECURSIVE DropEsc(_)
DropEsc(s) ==
    IF s = <<>> THEN <<>>
    ELSE IF Head(s) # Backslash THEN <<Head(s)>> \o DropEsc(Tail(s))
    ELSE DropEsc(SubSeq(s, 3, Len(s)))

\* The step from sc to sc' handled c, the character before index n of the
\* pattern, as an ordinary member of the open class: the upper bound of the
\* pending range, the lower bound of a range when a '-' follows, a single
\* member otherwise. The class stays open and its negation is unchanged.
ActsAsMember(c, n) ==
    /\ sc'.pos = n /\ sc'.negated = sc.negated /\ ~sc'.closed
    /\ sc'.tokens = sc.tokens
    /\ IF sc.in_range # <<>>
       THEN IF sc.in_range[1] <= c
            THEN /\ sc'.pc = "char_cls" /\ sc'.in_range = <<>>
                 /\ sc'.types = Append(sc.types, Range(sc.in_range[1], c))
            ELSE /\ sc'.pc = "err"
                 /\ sc'.err[1].kind = "InvalidRangeValues"
                 /\ sc'.err[1].chars = <<sc.in_range[1], c>>
       ELSE /\ sc'.pc = "char_cls"
            /\ IF n <= Len(pattern) /\ pattern[n] = Minus
               THEN sc'.in_range = <<c>> /\ sc'.types = sc.types
               ELSE sc'.in_range = <<>> /\ sc'.types = Append(sc.types, Single(c))

\* C16: a backslash followed by a character c contributes c itself. A literal
\* run yields the text of the run without the escaping backslashes, so a
\* pattern that is one literal matches that text and neither the pattern as
\* written nor the pattern without its escaped characters; inside a class the
\* escaped c is an ordinary member or range bound, ']' and '-' included.
C16_Escape ==
    [][/\ (sc.pc = "literal" /\ sc'.pc = "question" /\ sc'.pos > sc.pos)
          => sc'.tokens = Append(sc.tokens,
                 Literal(Unesc(SubSeq(pattern, sc.pos, sc'.pos - 1))))
       /\ (sc'.pc = "ok" /\ Len(sc'.tokens) = 1 /\ sc'.tokens[1].type = "Literal"
              /\ \E k \in 1..Len(pattern) : pattern[k] = Backslash)
          => /\ Matches(sc'.tokens, Unesc(pattern))
             /\ ~Matches(sc'.tokens, DropEsc(pattern))
             /\ ~Matches(sc'.tokens, pattern)
       /\ (ClassReads(Backslash) /\ sc.pos < Len(pattern))
          => ActsAsMember(pattern[sc.pos + 1], sc.pos + 2)]_vars

\* A class whose only member is an escaped ']' has been compiled.
C16_Witness ==
    /\ sc.pc = "ok" /\ pattern = <<LBracket, Backslash, RBracket, RBracket>>
    /\ sc.tokens = <<CharClass(FALSE, <<Single(RBracket)>>)>>

\* C17: inside a class every unescaped character other than '\', '-' and ']'
\* is an ordinary member. The negation is set by a '^' directly after '[' and
\* by nothing else: a later '^' is the member '^', and '[', '?' and '*' are
\* members too.
C17_OrdinaryMembers ==
    [][/\ \A c \in (PatAlphabet \cup ClassAlphabet) \ {Backslash, Minus, RBracket} :
              ClassReads(c) => ActsAsMember(c, sc.pos + 1)
       /\ (sc.pc = "class" /\ sc'.pc = "char_cls")
          => sc'.negated = (sc.pos + 1 <= Len(pattern) /\ pattern[sc.pos + 1] = Caret)
       /\ (sc.pc = "char_cls" /\ sc'.pc \in {"char_cls", "err", "stars", "ok"})
          => sc'.negated = sc.negated]_vars

\* A negated class whose only member is '^' has been compiled.
C17_Witness ==
    /\ sc.pc = "ok" /\ pattern = <<LBracket, Caret, Caret, RBracket>>
    /\ sc.tokens = <<CharClass(TRUE, <<Single(Caret)>>)>>

\* ---------------------------------------------------------------------
\* Character classes built directly from an item list.

MaxItems == 2

\* The items over the characters of the candidates: single characters and
\* the non-empty inclusive ranges.
Items ==
    {Single(c) : c \in NameAlphabet}
        \cup {Range(r[1], r[2]) : r \in {x \in NameAlphabet \X NameAlphabet : x[1] <= x[2]}}

ItemLists == SeqsUpTo(Items, MaxItems) \ {<<>>}

\* CharClass::new(negated, items) as the only token of a pattern, and a
\* candidate to match against it.
InitClass ==
    /\ pattern = <<>>
    /\ \E negated \in BOOLEAN, items \in ItemLists :
           sc = [ScanInit EXCEPT !.pc = "ok", !.tokens = <<CharClass(negated, items)>>]
    /\ name \in Names
    /\ m = MatchInit(name)

NextClass == MatchOuter

SpecClass == InitClass /\ [][NextClass]_vars

\* The item accepts c: it is the single character c or a range around c.
ItemAccepts(item, c) ==
    \/ item.type = "Single" /\ item.c = c
    \/ item.type = "Range" /\ item.lo <= c /\ c <= item.hi

\* C18: on a single character the negated class is the exact complement of
\* the class with the same items that is not negated: a class that is not
\* negated accepts c iff one of its items accepts c, a negated class accepts
\* c iff none does, and the two classes over the same items never agree.
C18_Complement ==
    (Returned /\ Len(name) = 1)
    => LET cc == Tokens[1]
           c == name[1]
           listed == \E j \in 1..Len(cc.matches) : ItemAccepts(cc.matches[j], c)
       IN  /\ m.result[1] = (IF cc.negated THEN ~listed ELSE listed)
           /\ m.result[1] = MatchesChar(cc, c)
           /\ Matches(<<CharClass(~cc.negated, cc.matches)>>, name) = ~m.result[1]
           /\ MatchesChar(CharClass(TRUE, cc.matches), c)
                  = ~MatchesChar(CharClass(FALSE, cc.matches), c)

\* A negated class with a range has accepted a character outside its items.
C18_Witness ==
    /\ Returned /\ Len(name) = 1 /\ m.result = <<TRUE>>
    /\ Tokens[1].negated
    /\ \E j \in 1..Len(Tokens[1].matches) :
           Tokens[1].matches[j].type = "Range" /\ Tokens[1].matches[j].lo < name[1]

\* ---------------------------------------------------------------------
\* Patterns built from static token data, as the glob! macro emits them.

\* literal::from_static, charcls::from_static: the data is borrowed.
LiteralFromStatic(literal) == [type |-> "Literal", text |-> literal, cow |-> "Borrowed"]
CharClassFromStatic(negated, matches) ==
    [type |-> "CharClass", negated |-> negated, matches |-> matches, cow |-> "Borrowed"]

\* charcls::type_from_char, charcls::type_from_range_unchecked
TypeFromChar(c) == [type |-> "Single", c |-> c]
TypeFromRangeUnchecked(lo, hi) == [type |-> "Range", lo |-> lo, hi |-> hi]

\* GlobPattern::_new: the tokens scan_patterns pushed, owned. Defined for the
\* patterns that compile.
GlobPatternNew(p) == [tokens |-> Compile(p).tokens, cow |-> "Owned"]

\* glob_from_tokens: the pattern borrows the token slice.
GlobFromTokens(tokens) == [tokens |-> tokens, cow |-> "Borrowed"]

\* glob_token_literal_into_stream: `literal::from_static(#l)`
GlobTokenLiteralIntoStream(l) == LiteralFromStatic(l.text)

\* cct_single_into_stream, cct_range_into_stream
CctIntoStream(cct) ==
    IF cct.type = "Single" THEN TypeFromChar(cct.c)
    ELSE TypeFromRangeUnchecked(cct.lo, cct.hi)

\* glob_token_char_class_into_stream that emits every class as not negated.
GlobTokenCharClassIntoStreamPlain(cc) ==
    CharClassFromStatic(FALSE, [j \in 1..Len(cc.matches) |-> CctIntoStream(cc.matches[j])])

\* glob_token_char_class_into_stream: the items in order, then
\* `charcls::from_static(#negated, RESULTING_CCTS)`
GlobTokenCharClassIntoStream(cc) ==
    CharClassFromStatic(cc.negated,
                        [j \in 1..Len(cc.matches) |-> CctIntoStream(cc.matches[j])])

\* glob_tokens_into_stream: the value of the expression the macro emits.
GlobTokensIntoStream(glob_tokens) ==
    GlobFromTokens([k \in 1..Len(glob_tokens) |->
        CASE glob_tokens[k].type = "Literal" -> GlobTokenLiteralIntoStream(glob_tokens[k])
          [] glob_tokens[k].type = "CharClass" -> GlobTokenCharClassIntoStream(glob_tokens[k])
          [] glob_tokens[k].type = "SeqWildcard" -> SeqWildcard
          [] glob_tokens[k].type = "SingleWildcard" -> SingleWildcard])

\* ---------------------------------------------------------------------
\* The input of glob!: a token stream that must hold one string literal. A
\* token is a Literal with its source text, a Group with its delimiter and
\* its stream, or any other token; spans are left out.

DQuote == 34
Pound == 35
SQuote == 39
ChR == 114
ChX == 120
ChU == 117
ChN == 110
ChT == 116
LBrace == 123
RBrace == 125
Nul == 0
Tab == 9
Lf == 10
Cr == 13

LiteralToken(text) == [kind |-> "Literal", text |-> text]
GroupToken(delimiter, stream) == [kind |-> "Group", delimiter |-> delimiter, stream |-> stream]
IdentToken == [kind |-> "Ident"]

\* Result<_, &'static str>, and the panic of an arithmetic overflow.
ParseOk(val) == [tag |-> "Ok", val |-> val]
ParseErr(msg) == [tag |-> "Err", msg |-> msg]
ParsePanic == [tag |-> "Panic"]

ExpectedStringLiteral == <<"expected string literal">>
MissingQuote == <<"missing '\"' after 'r', expected string literal">>

\* The lower-case hexadecimal digits of n.
RECURSIVE HexLower(_)
HexLower(n) ==
    LET d == n % 16
        ch == IF d < 10 THEN Digit0 + d ELSE 87 + d
    IN  IF n < 16 THEN <<ch>> ELSE HexLower(n \div 16) \o <<ch>>

\* `{:?}` of a char is char::escape_debug of the standard library between
\* single quotes: a short escape for NUL, tab, CR, LF, backslash and single
\* quote, \u{..} for a grapheme extender and for a char that is not
\* printable, and the char itself otherwise. The two tables are those of
\* Unicode 17.0.0, as inclusive ranges of code points.

\* The chars with the property Grapheme_Extend.
GraphemeExtend ==
    <<
       <<768, 879>>, <<1155, 1161>>, <<1425, 1469>>, <<1471, 1471>>, <<1473, 1474>>,
       <<1476, 1477>>, <<1479, 1479>>, <<1552, 1562>>, <<1611, 1631>>, <<1648, 1648>>,
       <<1750, 1756>>, <<1759, 1764>>, <<1767, 1768>>, <<1770, 1773>>, <<1809, 1809>>,
       <<1840, 1866>>, <<1958, 1968>>, <<2027, 2035>>, <<2045, 2045>>, <<2070, 2073>>,
       <<2075, 2083>>, <<2085, 2087>>, <<2089, 2093>>, <<2137, 2139>>, <<2199, 2207>>,
       <<2250, 2273>>, <<2275, 2306>>, <<2362, 2362>>, <<2364, 2364>>, <<2369, 2376>>,
       <<2381, 2381>>, <<2385, 2391>>, <<2402, 2403>>, <<2433, 2433>>, <<2492, 2492>>,
       <<2494, 2494>>, <<2497, 2500>>, <<2509, 2509>>, <<2519, 2519>>, <<2530, 2531>>,
       <<2558, 2558>>, <<2561, 2562>>, <<2620, 2620>>, <<2625, 2626>>, <<2631, 2632>>,
       <<2635, 2637>>, <<2641, 2641>>, <<2672, 2673>>, <<2677, 2677>>, <<2689, 2690>>,
       <<2748, 2748>>, <<2753, 2757>>, <<2759, 2760>>, <<2765, 2765>>, <<2786, 2787>>,
       <<2810, 2815>>, <<2817, 2817>>, <<2876, 2876>>, <<2878, 2879>>, <<2881, 2884>>,
       <<2893, 2893>>, <<2901, 2903>>, <<2914, 2915>>, <<2946, 2946>>, <<3006, 3006>>,
       <<3008, 3008>>, <<3021, 3021>>, <<3031, 3031>>, <<3072, 3072>>, <<3076, 3076>>,
       <<3132, 3132>>, <<3134, 3136>>, <<3142, 3144>>, <<3146, 3149>>, <<3157, 3158>>,
       <<3170, 3171>>, <<3201, 3201>>, <<3260, 3260>>, <<3263, 3264>>, <<3266, 3266>>,
       <<3270, 3272>>, <<3274, 3277>>, <<3285, 3286>>, <<3298, 3299>>, <<3328, 3329>>,
       <<3387, 3388>>, <<3390, 3390>>, <<3393, 3396>>, <<3405, 3405>>, <<3415, 3415>>,
       <<3426, 3427>>, <<3457, 3457>>, <<3530, 3530>>, <<3535, 3535>>, <<3538, 3540>>,
       <<3542, 3542>>, <<3551, 3551>>, <<3633, 3633>>, <<3636, 3642>>, <<3655, 3662>>,
       <<3761, 3761>>, <<3764, 3772>>, <<3784, 3790>>, <<3864, 3865>>, <<3893, 3893>>,
       <<3895, 3895>>, <<3897, 3897>>, <<3953, 3966>>, <<3968, 3972>>, <<3974, 3975>>,
       <<3981, 3991>>, <<3993, 4028>>, <<4038, 4038>>, <<4141, 4144>>, <<4146, 4151>>,
       <<4153, 4154>>, <<4157, 4158>>, <<4184, 4185>>, <<4190, 4192>>, <<4209, 4212>>,
       <<4226, 4226>>, <<4229, 4230>>, <<4237, 4237>>, <<4253, 4253>>, <<4957, 4959>>,
       <<5906, 5909>>, <<5938, 5940>>, <<5970, 5971>>, <<6002, 6003>>, <<6068, 6069>>,
       <<6071, 6077>>, <<6086, 6086>>, <<6089, 6099>>, <<6109, 6109>>, <<6155, 6157>>,
       <<6159, 6159>>, <<6277, 6278>>, <<6313, 6313>>, <<6432, 6434>>, <<6439, 6440>>,
       <<6450, 6450>>, <<6457, 6459>>, <<6679, 6680>>, <<6683, 6683>>, <<6742, 6742>>,
       <<6744, 6750>>, <<6752, 6752>>, <<6754, 6754>>, <<6757, 6764>>, <<6771, 6780>>,
       <<6783, 6783>>, <<6832, 6877>>, <<6880, 6891>>, <<6912, 6915>>, <<6964, 6973>>,
       <<6978, 6980>>, <<7019, 7027>>, <<7040, 7041>>, <<7074, 7077>>, <<7080, 7085>>,
       <<7142, 7142>>, <<7144, 7145>>, <<7149, 7149>>, <<7151, 7155>>, <<7212, 7219>>,
       <<7222, 7223>>, <<7376, 7378>>, <<7380, 7392>>, <<7394, 7400>>, <<7405, 7405>>,
       <<7412, 7412>>, <<7416, 7417>>, <<7616, 7679>>, <<8204, 8204>>, <<8400, 8432>>,
       <<11503, 11505>>, <<11647, 11647>>, <<11744, 11775>>, <<12330, 12335>>, <<12441, 12442>>,
       <<42607, 42610>>, <<42612, 42621>>, <<42654, 42655>>, <<42736, 42737>>, <<43010, 43010>>,
       <<43014, 43014>>, <<43019, 43019>>, <<43045, 43046>>, <<43052, 43052>>, <<43204, 43205>>,
       <<43232, 43249>>, <<43263, 43263>>, <<43302, 43309>>, <<43335, 43345>>, <<43347, 43347>>,
       <<43392, 43394>>, <<43443, 43443>>, <<43446, 43449>>, <<43452, 43453>>, <<43456, 43456>>,
       <<43493, 43493>>, <<43561, 43566>>, <<43569, 43570>>, <<43573, 43574>>, <<43587, 43587>>,
       <<43596, 43596>>, <<43644, 43644>>, <<43696, 43696>>, <<43698, 43700>>, <<43703, 43704>>,
       <<43710, 43711>>, <<43713, 43713>>, <<43756, 43757>>, <<43766, 43766>>, <<44005, 44005>>,
       <<44008, 44008>>, <<44013, 44013>>, <<64286, 64286>>, <<65024, 65039>>, <<65056, 65071>>,
       <<65438, 65439>>, <<66045, 66045>>, <<66272, 66272>>, <<66422, 66426>>, <<68097, 68099>>,
       <<68101, 68102>>, <<68108, 68111>>, <<68152, 68154>>, <<68159, 68159>>, <<68325, 68326>>,
       <<68900, 68903>>, <<68969, 68973>>, <<69291, 69292>>, <<69370, 69375>>, <<69446, 69456>>,
       <<69506, 69509>>, <<69633, 69633>>, <<69688, 69702>>, <<69744, 69744>>, <<69747, 69748>>,
       <<69759, 69761>>, <<69811, 69814>>, <<69817, 69818>>, <<69826, 69826>>, <<69888, 69890>>,
       <<69927, 69931>>, <<69933, 69940>>, <<70003, 70003>>, <<70016, 70017>>, <<70070, 70078>>,
       <<70080, 70080>>, <<70089, 70092>>, <<70095, 70095>>, <<70191, 70193>>, <<70196, 70199>>,
       <<70206, 70206>>, <<70209, 70209>>, <<70367, 70367>>, <<70371, 70378>>, <<70400, 70401>>,
       <<70459, 70460>>, <<70462, 70462>>, <<70464, 70464>>, <<70477, 70477>>, <<70487, 70487>>,
       <<70502, 70508>>, <<70512, 70516>>, <<70584, 70584>>, <<70587, 70592>>, <<70594, 70594>>,
       <<70597, 70597>>, <<70599, 70601>>, <<70606, 70608>>, <<70610, 70610>>, <<70625, 70626>>,
       <<70712, 70719>>, <<70722, 70724>>, <<70726, 70726>>, <<70750, 70750>>, <<70832, 70832>>,
       <<70835, 70840>>, <<70842, 70842>>, <<70845, 70845>>, <<70847, 70848>>, <<70850, 70851>>,
       <<71087, 71087>>, <<71090, 71093>>, <<71100, 71101>>, <<71103, 71104>>, <<71132, 71133>>,
       <<71219, 71226>>, <<71229, 71229>>, <<71231, 71232>>, <<71339, 71339>>, <<71341, 71341>>,
       <<71344, 71351>>, <<71453, 71453>>, <<71455, 71455>>, <<71458, 71461>>, <<71463, 71467>>,
       <<71727, 71735>>, <<71737, 71738>>, <<71984, 71984>>, <<71995, 71998>>, <<72003, 72003>>,
       <<72148, 72151>>, <<72154, 72155>>, <<72160, 72160>>, <<72193, 72202>>, <<72243, 72248>>,
       <<72251, 72254>>, <<72263, 72263>>, <<72273, 72278>>, <<72281, 72283>>, <<72330, 72342>>,
       <<72344, 72345>>, <<72544, 72544>>, <<72546, 72548>>, <<72550, 72550>>, <<72752, 72758>>,
       <<72760, 72765>>, <<72767, 72767>>, <<72850, 72871>>, <<72874, 72880>>, <<72882, 72883>>,
       <<72885, 72886>>, <<73009, 73014>>, <<73018, 73018>>, <<73020, 73021>>, <<73023, 73029>>,
       <<73031, 73031>>, <<73104, 73105>>, <<73109, 73109>>, <<73111, 73111>>, <<73459, 73460>>,
       <<73472, 73473>>, <<73526, 73530>>, <<73536, 73538>>, <<73562, 73562>>, <<78912, 78912>>,
       <<78919, 78933>>, <<90398, 90409>>, <<90413, 90415>>, <<92912, 92916>>, <<92976, 92982>>,
       <<94031, 94031>>, <<94095, 94098>>, <<94180, 94180>>, <<94192, 94193>>, <<113821, 113822>>,
       <<118528, 118573>>, <<118576, 118598>>, <<119141, 119145>>, <<119149, 119154>>, <<119163, 119170>>,
       <<119173, 119179>>, <<119210, 119213>>, <<119362, 119364>>, <<121344, 121398>>, <<121403, 121452>>,
       <<121461, 121461>>, <<121476, 121476>>, <<121499, 121503>>, <<121505, 121519>>, <<122880, 122886>>,
       <<122888, 122904>>, <<122907, 122913>>, <<122915, 122916>>, <<122918, 122922>>, <<123023, 123023>>,
       <<123184, 123190>>, <<123566, 123566>>, <<123628, 123631>>, <<124140, 124143>>, <<124398, 124399>>,
       <<124643, 124643>>, <<124646, 124646>>, <<124654, 124655>>, <<124661, 124661>>, <<125136, 125142>>,
       <<125252, 125258>>, <<917536, 917631>>, <<917760, 917999>>
    >>

\* The chars that are not printable: the general categories Cc, Cf, Co, Cn,
\* Zl, Zp, and Zs without the space.
NotPrintable ==
    <<
       <<0, 31>>, <<127, 160>>, <<173, 173>>, <<888, 889>>, <<896, 899>>,
       <<907, 907>>, <<909, 909>>, <<930, 930>>, <<1328, 1328>>, <<1367, 1368>>,
       <<1419, 1420>>, <<1424, 1424>>, <<1480, 1487>>, <<1515, 1518>>, <<1525, 1541>>,
       <<1564, 1564>>, <<1757, 1757>>, <<1806, 1807>>, <<1867, 1868>>, <<1970, 1983>>,
       <<2043, 2044>>, <<2094, 2095>>, <<2111, 2111>>, <<2140, 2141>>, <<2143, 2143>>,
       <<2155, 2159>>, <<2192, 2198>>, <<2274, 2274>>, <<2436, 2436>>, <<2445, 2446>>,
       <<2449, 2450>>, <<2473, 2473>>, <<2481, 2481>>, <<2483, 2485>>, <<2490, 2491>>,
       <<2501, 2502>>, <<2505, 2506>>, <<2511, 2518>>, <<2520, 2523>>, <<2526, 2526>>,
       <<2532, 2533>>, <<2559, 2560>>, <<2564, 2564>>, <<2571, 2574>>, <<2577, 2578>>,
       <<2601, 2601>>, <<2609, 2609>>, <<2612, 2612>>, <<2615, 2615>>, <<2618, 2619>>,
       <<2621, 2621>>, <<2627, 2630>>, <<2633, 2634>>, <<2638, 2640>>, <<2642, 2648>>,
       <<2653, 2653>>, <<2655, 2661>>, <<2679, 2688>>, <<2692, 2692>>, <<2702, 2702>>,
       <<2706, 2706>>, <<2729, 2729>>, <<2737, 2737>>, <<2740, 2740>>, <<2746, 2747>>,
       <<2758, 2758>>, <<2762, 2762>>, <<2766, 2767>>, <<2769, 2783>>, <<2788, 2789>>,
       <<2802, 2808>>, <<2816, 2816>>, <<2820, 2820>>, <<2829, 2830>>, <<2833, 2834>>,
       <<2857, 2857>>, <<2865, 2865>>, <<2868, 2868>>, <<2874, 2875>>, <<2885, 2886>>,
       <<2889, 2890>>, <<2894, 2900>>, <<2904, 2907>>, <<2910, 2910>>, <<2916, 2917>>,
       <<2936, 2945>>, <<2948, 2948>>, <<2955, 2957>>, <<2961, 2961>>, <<2966, 2968>>,
       <<2971, 2971>>, <<2973, 2973>>, <<2976, 2978>>, <<2981, 2983>>, <<2987, 2989>>,
       <<3002, 3005>>, <<3011, 3013>>, <<3017, 3017>>, <<3022, 3023>>, <<3025, 3030>>,
       <<3032, 3045>>, <<3067, 3071>>, <<3085, 3085>>, <<3089, 3089>>, <<3113, 3113>>,
       <<3130, 3131>>, <<3141, 3141>>, <<3145, 3145>>, <<3150, 3156>>, <<3159, 3159>>,
       <<3163, 3163>>, <<3166, 3167>>, <<3172, 3173>>, <<3184, 3190>>, <<3213, 3213>>,
       <<3217, 3217>>, <<3241, 3241>>, <<3252, 3252>>, <<3258, 3259>>, <<3269, 3269>>,
       <<3273, 3273>>, <<3278, 3284>>, <<3287, 3291>>, <<3295, 3295>>, <<3300, 3301>>,
       <<3312, 3312>>, <<3316, 3327>>, <<3341, 3341>>, <<3345, 3345>>, <<3397, 3397>>,
       <<3401, 3401>>, <<3408, 3411>>, <<3428, 3429>>, <<3456, 3456>>, <<3460, 3460>>,
       <<3479, 3481>>, <<3506, 3506>>, <<3516, 3516>>, <<3518, 3519>>, <<3527, 3529>>,
       <<3531, 3534>>, <<3541, 3541>>, <<3543, 3543>>, <<3552, 3557>>, <<3568, 3569>>,
       <<3573, 3584>>, <<3643, 3646>>, <<3676, 3712>>, <<3715, 3715>>, <<3717, 3717>>,
       <<3723, 3723>>, <<3748, 3748>>, <<3750, 3750>>, <<3774, 3775>>, <<3781, 3781>>,
       <<3783, 3783>>, <<3791, 3791>>, <<3802, 3803>>, <<3808, 3839>>, <<3912, 3912>>,
       <<3949, 3952>>, <<3992, 3992>>, <<4029, 4029>>, <<4045, 4045>>, <<4059, 4095>>,
       <<4294, 4294>>, <<4296, 4300>>, <<4302, 4303>>, <<4681, 4681>>, <<4686, 4687>>,
       <<4695, 4695>>, <<4697, 4697>>, <<4702, 4703>>, <<4745, 4745>>, <<4750, 4751>>,
       <<4785, 4785>>, <<4790, 4791>>, <<4799, 4799>>, <<4801, 4801>>, <<4806, 4807>>,
       <<4823, 4823>>, <<4881, 4881>>, <<4886, 4887>>, <<4955, 4956>>, <<4989, 4991>>,
       <<5018, 5023>>, <<5110, 5111>>, <<5118, 5119>>, <<5760, 5760>>, <<5789, 5791>>,
       <<5881, 5887>>, <<5910, 5918>>, <<5943, 5951>>, <<5972, 5983>>, <<5997, 5997>>,
       <<6001, 6001>>, <<6004, 6015>>, <<6110, 6111>>, <<6122, 6127>>, <<6138, 6143>>,
       <<6158, 6158>>, <<6170, 6175>>, <<6265, 6271>>, <<6315, 6319>>, <<6390, 6399>>,
       <<6431, 6431>>, <<6444, 6447>>, <<6460, 6463>>, <<6465, 6467>>, <<6510, 6511>>,
       <<6517, 6527>>, <<6572, 6575>>, <<6602, 6607>>, <<6619, 6621>>, <<6684, 6685>>,
       <<6751, 6751>>, <<6781, 6782>>, <<6794, 6799>>, <<6810, 6815>>, <<6830, 6831>>,
       <<6878, 6879>>, <<6892, 6911>>, <<6989, 6989>>, <<7156, 7163>>, <<7224, 7226>>,
       <<7242, 7244>>, <<7307, 7311>>, <<7355, 7356>>, <<7368, 7375>>, <<7419, 7423>>,
       <<7958, 7959>>, <<7966, 7967>>, <<8006, 8007>>, <<8014, 8015>>, <<8024, 8024>>,
       <<8026, 8026>>, <<8028, 8028>>, <<8030, 8030>>, <<8062, 8063>>, <<8117, 8117>>,
       <<8133, 8133>>, <<8148, 8149>>, <<8156, 8156>>, <<8176, 8177>>, <<8181, 8181>>,
       <<8191, 8207>>, <<8232, 8239>>, <<8287, 8303>>, <<8306, 8307>>, <<8335, 8335>>,
       <<8349, 8351>>, <<8386, 8399>>, <<8433, 8447>>, <<8588, 8591>>, <<9258, 9279>>,
       <<9291, 9311>>, <<11124, 11125>>, <<11508, 11512>>, <<11558, 11558>>, <<11560, 11564>>,
       <<11566, 11567>>, <<11624, 11630>>, <<11633, 11646>>, <<11671, 11679>>, <<11687, 11687>>,
       <<11695, 11695>>, <<11703, 11703>>, <<11711, 11711>>, <<11719, 11719>>, <<11727, 11727>>,
       <<11735, 11735>>, <<11743, 11743>>, <<11870, 11903>>, <<11930, 11930>>, <<12020, 12031>>,
       <<12246, 12271>>, <<12288, 12288>>, <<12352, 12352>>, <<12439, 12440>>, <<12544, 12548>>,
       <<12592, 12592>>, <<12687, 12687>>, <<12774, 12782>>, <<12831, 12831>>, <<42125, 42127>>,
       <<42183, 42191>>, <<42540, 42559>>, <<42744, 42751>>, <<42973, 42992>>, <<43053, 43055>>,
       <<43066, 43071>>, <<43128, 43135>>, <<43206, 43213>>, <<43226, 43231>>, <<43348, 43358>>,
       <<43389, 43391>>, <<43470, 43470>>, <<43482, 43485>>, <<43519, 43519>>, <<43575, 43583>>,
       <<43598, 43599>>, <<43610, 43611>>, <<43715, 43738>>, <<43767, 43776>>, <<43783, 43784>>,
       <<43791, 43792>>, <<43799, 43807>>, <<43815, 43815>>, <<43823, 43823>>, <<43884, 43887>>,
       <<44014, 44015>>, <<44026, 44031>>, <<55204, 55215>>, <<55239, 55242>>, <<55292, 55295>>,
       <<57344, 63743>>, <<64110, 64111>>, <<64218, 64255>>, <<64263, 64274>>, <<64280, 64284>>,
       <<64311, 64311>>, <<64317, 64317>>, <<64319, 64319>>, <<64322, 64322>>, <<64325, 64325>>,
       <<64976, 65007>>, <<65050, 65055>>, <<65107, 65107>>, <<65127, 65127>>, <<65132, 65135>>,
       <<65141, 65141>>, <<65277, 65280>>, <<65471, 65473>>, <<65480, 65481>>, <<65488, 65489>>,
       <<65496, 65497>>, <<65501, 65503>>, <<65511, 65511>>, <<65519, 65531>>, <<65534, 65535>>,
       <<65548, 65548>>, <<65575, 65575>>, <<65595, 65595>>, <<65598, 65598>>, <<65614, 65615>>,
       <<65630, 65663>>, <<65787, 65791>>, <<65795, 65798>>, <<65844, 65846>>, <<65935, 65935>>,
       <<65949, 65951>>, <<65953, 65999>>, <<66046, 66175>>, <<66205, 66207>>, <<66257, 66271>>,
       <<66300, 66303>>, <<66340, 66348>>, <<66379, 66383>>, <<66427, 66431>>, <<66462, 66462>>,
       <<66500, 66503>>, <<66518, 66559>>, <<66718, 66719>>, <<66730, 66735>>, <<66772, 66775>>,
       <<66812, 66815>>, <<66856, 66863>>, <<66916, 66926>>, <<66939, 66939>>, <<66955, 66955>>,
       <<66963, 66963>>, <<66966, 66966>>, <<66978, 66978>>, <<66994, 66994>>, <<67002, 67002>>,
       <<67005, 67007>>, <<67060, 67071>>, <<67383, 67391>>, <<67414, 67423>>, <<67432, 67455>>,
       <<67462, 67462>>, <<67505, 67505>>, <<67515, 67583>>, <<67590, 67591>>, <<67593, 67593>>,
       <<67638, 67638>>, <<67641, 67643>>, <<67645, 67646>>, <<67670, 67670>>, <<67743, 67750>>,
       <<67760, 67807>>, <<67827, 67827>>, <<67830, 67834>>, <<67868, 67870>>, <<67898, 67902>>,
       <<67930, 67967>>, <<68024, 68027>>, <<68048, 68049>>, <<68100, 68100>>, <<68103, 68107>>,
       <<68116, 68116>>, <<68120, 68120>>, <<68150, 68151>>, <<68155, 68158>>, <<68169, 68175>>,
       <<68185, 68191>>, <<68256, 68287>>, <<68327, 68330>>, <<68343, 68351>>, <<68406, 68408>>,
       <<68438, 68439>>, <<68467, 68471>>, <<68498, 68504>>, <<68509, 68520>>, <<68528, 68607>>,
       <<68681, 68735>>, <<68787, 68799>>, <<68851, 68857>>, <<68904, 68911>>, <<68922, 68927>>,
       <<68966, 68968>>, <<68998, 69005>>, <<69008, 69215>>, <<69247, 69247>>, <<69290, 69290>>,
       <<69294, 69295>>, <<69298, 69313>>, <<69320, 69327>>, <<69337, 69369>>, <<69416, 69423>>,
       <<69466, 69487>>, <<69514, 69551>>, <<69580, 69599>>, <<69623, 69631>>, <<69710, 69713>>,
       <<69750, 69758>>, <<69821, 69821>>, <<69827, 69839>>, <<69865, 69871>>, <<69882, 69887>>,
       <<69941, 69941>>, <<69960, 69967>>, <<70007, 70015>>, <<70112, 70112>>, <<70133, 70143>>,
       <<70162, 70162>>, <<70210, 70271>>, <<70279, 70279>>, <<70281, 70281>>, <<70286, 70286>>,
       <<70302, 70302>>, <<70314, 70319>>, <<70379, 70383>>, <<70394, 70399>>, <<70404, 70404>>,
       <<70413, 70414>>, <<70417, 70418>>, <<70441, 70441>>, <<70449, 70449>>, <<70452, 70452>>,
       <<70458, 70458>>, <<70469, 70470>>, <<70473, 70474>>, <<70478, 70479>>, <<70481, 70486>>,
       <<70488, 70492>>, <<70500, 70501>>, <<70509, 70511>>, <<70517, 70527>>, <<70538, 70538>>,
       <<70540, 70541>>, <<70543, 70543>>, <<70582, 70582>>, <<70593, 70593>>, <<70595, 70596>>,
       <<70598, 70598>>, <<70603, 70603>>, <<70614, 70614>>, <<70617, 70624>>, <<70627, 70655>>,
       <<70748, 70748>>, <<70754, 70783>>, <<70856, 70863>>, <<70874, 71039>>, <<71094, 71095>>,
       <<71134, 71167>>, <<71237, 71247>>, <<71258, 71263>>, <<71277, 71295>>, <<71354, 71359>>,
       <<71370, 71375>>, <<71396, 71423>>, <<71451, 71452>>, <<71468, 71471>>, <<71495, 71679>>,
       <<71740, 71839>>, <<71923, 71934>>, <<71943, 71944>>, <<71946, 71947>>, <<71956, 71956>>,
       <<71959, 71959>>, <<71990, 71990>>, <<71993, 71994>>, <<72007, 72015>>, <<72026, 72095>>,
       <<72104, 72105>>, <<72152, 72153>>, <<72165, 72191>>, <<72264, 72271>>, <<72355, 72367>>,
       <<72441, 72447>>, <<72458, 72543>>, <<72552, 72639>>, <<72674, 72687>>, <<72698, 72703>>,
       <<72713, 72713>>, <<72759, 72759>>, <<72774, 72783>>, <<72813, 72815>>, <<72848, 72849>>,
       <<72872, 72872>>, <<72887, 72959>>, <<72967, 72967>>, <<72970, 72970>>, <<73015, 73017>>,
       <<73019, 73019>>, <<73022, 73022>>, <<73032, 73039>>, <<73050, 73055>>, <<73062, 73062>>,
       <<73065, 73065>>, <<73103, 73103>>, <<73106, 73106>>, <<73113, 73119>>, <<73130, 73135>>,
       <<73180, 73183>>, <<73194, 73439>>, <<73465, 73471>>, <<73489, 73489>>, <<73531, 73533>>,
       <<73563, 73647>>, <<73649, 73663>>, <<73714, 73726>>, <<74650, 74751>>, <<74863, 74863>>,
       <<74869, 74879>>, <<75076, 77711>>, <<77811, 77823>>, <<78896, 78911>>, <<78934, 78943>>,
       <<82939, 82943>>, <<83527, 90367>>, <<90426, 92159>>, <<92729, 92735>>, <<92767, 92767>>,
       <<92778, 92781>>, <<92863, 92863>>, <<92874, 92879>>, <<92910, 92911>>, <<92918, 92927>>,
       <<92998, 93007>>, <<93018, 93018>>, <<93026, 93026>>, <<93048, 93052>>, <<93072, 93503>>,
       <<93562, 93759>>, <<93851, 93855>>, <<93881, 93882>>, <<93908, 93951>>, <<94027, 94030>>,
       <<94088, 94094>>, <<94112, 94175>>, <<94181, 94191>>, <<94199, 94207>>, <<101590, 101630>>,
       <<101663, 101759>>, <<101875, 110575>>, <<110580, 110580>>, <<110588, 110588>>, <<110591, 110591>>,
       <<110883, 110897>>, <<110899, 110927>>, <<110931, 110932>>, <<110934, 110947>>, <<110952, 110959>>,
       <<111356, 113663>>, <<113771, 113775>>, <<113789, 113791>>, <<113801, 113807>>, <<113818, 113819>>,
       <<113824, 117759>>, <<118013, 118015>>, <<118452, 118457>>, <<118481, 118495>>, <<118513, 118527>>,
       <<118574, 118575>>, <<118599, 118607>>, <<118724, 118783>>, <<119030, 119039>>, <<119079, 119080>>,
       <<119155, 119162>>, <<119275, 119295>>, <<119366, 119487>>, <<119508, 119519>>, <<119540, 119551>>,
       <<119639, 119647>>, <<119673, 119807>>, <<119893, 119893>>, <<119965, 119965>>, <<119968, 119969>>,
       <<119971, 119972>>, <<119975, 119976>>, <<119981, 119981>>, <<119994, 119994>>, <<119996, 119996>>,
       <<120004, 120004>>, <<120070, 120070>>, <<120075, 120076>>, <<120085, 120085>>, <<120093, 120093>>,
       <<120122, 120122>>, <<120127, 120127>>, <<120133, 120133>>, <<120135, 120137>>, <<120145, 120145>>,
       <<120486, 120487>>, <<120780, 120781>>, <<121484, 121498>>, <<121504, 121504>>, <<121520, 122623>>,
       <<122655, 122660>>, <<122667, 122879>>, <<122887, 122887>>, <<122905, 122906>>, <<122914, 122914>>,
       <<122917, 122917>>, <<122923, 122927>>, <<122990, 123022>>, <<123024, 123135>>, <<123181, 123183>>,
       <<123198, 123199>>, <<123210, 123213>>, <<123216, 123535>>, <<123567, 123583>>, <<123642, 123646>>,
       <<123648, 124111>>, <<124154, 124367>>, <<124411, 124414>>, <<124416, 124607>>, <<124639, 124639>>,
       <<124662, 124669>>, <<124672, 124895>>, <<124903, 124903>>, <<124908, 124908>>, <<124911, 124911>>,
       <<124927, 124927>>, <<125125, 125126>>, <<125143, 125183>>, <<125260, 125263>>, <<125274, 125277>>,
       <<125280, 126064>>, <<126133, 126208>>, <<126270, 126463>>, <<126468, 126468>>, <<126496, 126496>>,
       <<126499, 126499>>, <<126501, 126502>>, <<126504, 126504>>, <<126515, 126515>>, <<126520, 126520>>,
       <<126522, 126522>>, <<126524, 126529>>, <<126531, 126534>>, <<126536, 126536>>, <<126538, 126538>>,
       <<126540, 126540>>, <<126544, 126544>>, <<126547, 126547>>, <<126549, 126550>>, <<126552, 126552>>,
       <<126554, 126554>>, <<126556, 126556>>, <<126558, 126558>>, <<126560, 126560>>, <<126563, 126563>>,
       <<126565, 126566>>, <<126571, 126571>>, <<126579, 126579>>, <<126584, 126584>>, <<126589, 126589>>,
       <<126591, 126591>>, <<126602, 126602>>, <<126620, 126624>>, <<126628, 126628>>, <<126634, 126634>>,
       <<126652, 126703>>, <<126706, 126975>>, <<127020, 127023>>, <<127124, 127135>>, <<127151, 127152>>,
       <<127168, 127168>>, <<127184, 127184>>, <<127222, 127231>>, <<127406, 127461>>, <<127491, 127503>>,
       <<127548, 127551>>, <<127561, 127567>>, <<127570, 127583>>, <<127590, 127743>>, <<128729, 128731>>,
       <<128749, 128751>>, <<128765, 128767>>, <<128986, 128991>>, <<129004, 129007>>, <<129009, 129023>>,
       <<129036, 129039>>, <<129096, 129103>>, <<129114, 129119>>, <<129160, 129167>>, <<129198, 129199>>,
       <<129212, 129215>>, <<129218, 129231>>, <<129241, 129279>>, <<129624, 129631>>, <<129646, 129647>>,
       <<129661, 129663>>, <<129675, 129677>>, <<129735, 129735>>, <<129737, 129740>>, <<129757, 129758>>,
       <<129771, 129774>>, <<129785, 129791>>, <<129939, 129939>>, <<130043, 131071>>, <<173792, 173823>>,
       <<178206, 178207>>, <<183982, 183983>>, <<191457, 191471>>, <<192094, 194559>>, <<195102, 196607>>,
       <<201547, 201551>>, <<210042, 917759>>, <<918000, 1114111>>
    >>

InRanges(c, ranges) ==
    \E k \in DOMAIN ranges : ranges[k][1] <= c /\ c <= ranges[k][2]

IsGraphemeExtended(c) == InRanges(c, GraphemeExtend)

IsPrintable(c) == ~InRanges(c, NotPrintable)

CharDebug(c) ==
    LET esc == CASE c = Nul -> <<Backslash, Digit0>>
                 [] c = Tab -> <<Backslash, ChT>>
                 [] c = Lf -> <<Backslash, ChN>>
                 [] c = Cr -> <<Backslash, ChR>>
                 [] c = SQuote -> <<Backslash, SQuote>>
                 [] c = Backslash -> <<Backslash, Backslash>>
                 [] c \notin {Nul, Tab, Lf, Cr, SQuote, Backslash}
                    /\ (IsGraphemeExtended(c) \/ ~IsPrintable(c)) ->
                        <<Backslash, ChU, LBrace>> \o HexLower(c) \o <<RBrace>>
                 [] OTHER -> <<c>>
    IN  <<SQuote>> \o esc \o <<SQuote>>

\* hex_to_u8
HexToU8(c) ==
    IF c > 255 THEN ParseErr(ExpectedStringLiteral)
    ELSE IF c \in 48..57 THEN ParseOk(c - 48)
    ELSE IF c \in 97..102 THEN ParseOk(c - 97 + 10)
    ELSE IF c \in 65..70 THEN ParseOk(c - 65 + 10)
    ELSE ParseErr(<<"unexpected non-hex character ", Decimal(c), " after \\x">>)

\* backslash_x on the characters after `\x`: the character and what is left.
BackslashX(s) ==
    IF Len(s) < 2 THEN ParseErr(ExpectedStringLiteral)
    ELSE LET h0 == HexToU8(s[1])
             h1 == HexToU8(s[2])
         IN  IF h0.tag # "Ok" THEN h0
             ELSE IF h1.tag # "Ok" THEN h1
             ELSE [tag |-> "Ok", val |-> (h0.val * 16) + h1.val,
                   rest |-> SubSeq(s, 3, Len(s))]

\* `{:?}` of the u32 hi * 2^16 + lo: its decimal digits.
RECURSIVE DecimalU32(_, _)
DecimalU32(hi, lo) ==
    IF hi = 0 /\ lo < 10 THEN <<Digit0 + lo>>
    ELSE LET t == ((hi % 10) * 65536) + lo
         IN  DecimalU32(hi \div 10, t \div 10) \o <<Digit0 + (t % 10)>>

\* The loop of backslash_u over the characters between the braces, with the
\* u32 ch kept as hi * 2^16 + lo. `ch *= 0x10` overflows when ch >= 2^28:
\* a panic where overflow checks are on, the wrapped value where they are
\* off.
RECURSIVE HexEscape(_, _, _, _)
HexEscape(hex_escape, hi, lo, overflow_checks) ==
    IF hex_escape = <<>> THEN ParseOk(<<hi, lo>>)
    ELSE IF hi >= 4096 /\ overflow_checks THEN ParsePanic
    ELSE LET h == HexToU8(Head(hex_escape))
             lo16 == lo * 16
         IN  IF h.tag # "Ok" THEN h
             ELSE HexEscape(Tail(hex_escape),
                            (hi * 16 + (lo16 \div 65536)) % 65536,
                            (lo16 % 65536) + h.val, overflow_checks)

\* backslash_u on the characters after `\u`: the character and what is left.
BackslashU(s, overflow_checks) ==
    IF s = <<>> \/ s[1] # LBrace
    THEN ParseErr(<<"unexpected unicode escape sequence, expected string literal">>)
    ELSE IF ~\E k \in 2..Len(s) : s[k] = RBrace THEN ParseErr(ExpectedStringLiteral)
    ELSE LET close == CHOOSE k \in 2..Len(s) :
                          s[k] = RBrace /\ \A j \in 2..(k - 1) : s[j] # RBrace
             r == HexEscape(SubSeq(s, 2, close - 1), 0, 0, overflow_checks)
         IN  IF r.tag # "Ok" THEN r
             ELSE LET hi == r.val[1]
                      lo == r.val[2]
                      ch == (hi * 65536) + lo
                  IN  IF hi <= 16 /\ ch \notin 55296..57343
                      THEN [tag |-> "Ok", val |-> ch, rest |-> SubSeq(s, close + 1, Len(s))]
                      ELSE ParseErr(<<"malformed character ", DecimalU32(hi, lo)>>)

\* char::is_whitespace
IsWhitespace(c) ==
    \/ c \in 9..13 \/ c \in 8192..8202
    \/ c \in {32, 133, 160, 5760, 8232, 8233, 8239, 8287, 12288}

\* `while let Some(&next) = s_iter.peek()`: skip the leading whitespace.
RECURSIVE SkipWhitespace(_)
SkipWhitespace(s) ==
    IF s # <<>> /\ IsWhitespace(Head(s)) THEN SkipWhitespace(Tail(s)) ELSE s

\* The loop of parse_cooked_content over the characters before the closing
\* quote.
RECURSIVE CookedLoop(_, _, _)
CookedLoop(s, result, overflow_checks) ==
    IF s = <<>> THEN ParseOk(result)
    ELSE IF Head(s) # Backslash THEN CookedLoop(Tail(s), Append(result, Head(s)), overflow_checks)
    ELSE IF Len(s) = 1
    THEN ParseErr(<<"unexpected end-of-string, expected string literal">>)
    ELSE LET c == s[2]
             rest == SubSeq(s, 3, Len(s))
             push(ch) == CookedLoop(rest, Append(result, ch), overflow_checks)
         IN  CASE c = ChX ->
                    LET r == BackslashX(rest)
                    IN  IF r.tag # "Ok" THEN r
                        ELSE CookedLoop(r.rest, Append(result, r.val), overflow_checks)
               [] c = ChU ->
                    LET r == BackslashU(rest, overflow_checks)
                    IN  IF r.tag # "Ok" THEN r
                        ELSE CookedLoop(r.rest, Append(result, r.val), overflow_checks)
               [] c = ChN -> push(Lf)
               [] c = ChR -> push(Cr)
               [] c = ChT -> push(Tab)
               [] c = Backslash -> push(Backslash)
               [] c = Digit0 -> push(Nul)
               [] c = SQuote -> push(SQuote)
               [] c = DQuote -> push(DQuote)
               [] c \in {Cr, Lf} -> CookedLoop(SkipWhitespace(rest), result, overflow_checks)
               [] OTHER -> ParseErr(<<"unexpected char ", CharDebug(c), " after \\">>)

\* parse_cooked_content on the text after the opening quote.
ParseCookedContent(s, overflow_checks) ==
    LET quotes == {k \in 1..Len(s) : s[k] = DQuote}
    IN  IF quotes = {} THEN ParseErr(MissingQuote)
        ELSE LET end == CHOOSE k \in quotes : \A j \in quotes : j <= k
             IN  CookedLoop(SubSeq(s, 1, end - 1), <<>>, overflow_checks)

\* all_pounds
AllPounds(chars) == \A k \in 1..Len(chars) : chars[k] = Pound

\* parse_raw_content on the text after the `r`. end_pounds starts at the
\* closing quote itself, as the code slices it.
ParseRawContent(s) ==
    LET quotes == {k \in 1..Len(s) : s[k] = DQuote}
    IN  IF quotes = {} THEN ParseErr(MissingQuote)
        ELSE LET q_start == CHOOSE k \in quotes : \A j \in quotes : k <= j
                 q_end == CHOOSE k \in quotes : \A j \in quotes : j <= k
                 end_pounds == SubSeq(s, q_end, Len(s))
             IN  IF q_start = Len(s) THEN ParseErr(ExpectedStringLiteral)
                 ELSE IF AllPounds(SubSeq(s, 1, q_start - 1)) /\ AllPounds(end_pounds)
                 THEN ParseOk(SubSeq(s, q_start + 1, q_end - 1))
                 ELSE ParseErr(ExpectedStringLiteral)

\* parse_literal on the source text of a literal.
ParseLiteral(text, overflow_checks) ==
    IF Len(text) < 2 THEN ParseErr(ExpectedStringLiteral)
    ELSE CASE text[1] = DQuote -> ParseCookedContent(Tail(text), overflow_checks)
           [] text[1] = ChR -> ParseRawContent(Tail(text))
           [] OTHER -> ParseErr(ExpectedStringLiteral)

\* parse_input: one string literal, possibly wrapped in groups without
\* delimiter.
RECURSIVE ParseInput(_, _)
ParseInput(input, overflow_checks) ==
    IF input = <<>>
    THEN ParseErr(<<"unexpected end of input, expected string literal">>)
    ELSE LET token == input[1] IN
         CASE token.kind = "Group" /\ token.delimiter = "None" ->
                IF Len(input) > 1 THEN ParseErr(<<"unexpected token">>)
                ELSE ParseInput(token.stream, overflow_checks)
           [] token.kind = "Literal" ->
                LET r == ParseLiteral(token.text, overflow_checks)
                IN  IF r.tag # "Ok" THEN r
                    ELSE IF Len(input) > 1 THEN ParseErr(<<"unexpected token">>)
                    ELSE r
           [] OTHER -> ParseErr(ExpectedStringLiteral)

\* glob!: parse_input, scan_patterns on the string, then the emission of the
\* tokens; an error of either step expands to compile_error! with its
\* message and no pattern exists.
Glob(lit, overflow_checks) ==
    LET parsed == ParseInput(lit, overflow_checks)
        scanned == Compile(parsed.val)
    IN  IF parsed.tag = "Panic" THEN [tag |-> "Panic"]
        ELSE IF parsed.tag = "Err" THEN [tag |-> "CompileError", msg |-> parsed.msg]
        ELSE IF scanned.pc = "err"
        THEN [tag |-> "CompileError",
              msg |-> <<"pattern malformed: ">> \o DisplayError(scanned.err[1])]
        ELSE [tag |-> "Ok", pattern |-> GlobTokensIntoStream(scanned.tokens)]

\* Ways to write the string p as the input of glob!: a plain string literal
\* (for a p without '"' and '\'), the literal inside a group without
\* delimiter, and a literal with every character as a \u{...} escape.
RECURSIVE UnicodeEscapes(_)
UnicodeEscapes(p) ==
    IF p = <<>> THEN <<>>
    ELSE <<Backslash, ChU, LBrace>> \o HexLower(Head(p)) \o <<RBrace>> \o UnicodeEscapes(Tail(p))

MacroInputs(p) ==
    {<<LiteralToken(<<DQuote>> \o p \o <<DQuote>>)>>,
     <<GroupToken("None", <<LiteralToken(<<DQuote>> \o p \o <<DQuote>>)>>)>>,
     <<LiteralToken(<<DQuote>> \o UnicodeEscapes(p) \o <<DQuote>>)>>}

\* PartialEq of CharClassType: the same variant with equal characters.
CharClassTypeEq(a, b) ==
    /\ a.type = b.type
    /\ IF a.type = "Single" THEN a.c = b.c ELSE a.lo = b.lo /\ a.hi = b.hi

\* PartialEq of GlobToken. A Cow compares by the data it points to, owned or
\* borrowed.
GlobTokenEq(a, b) ==
    /\ a.type = b.type
    /\ CASE a.type = "Literal" -> a.text = b.text
         [] a.type = "CharClass" ->
                /\ a.negated = b.negated
                /\ Len(a.matches) = Len(b.matches)
                /\ \A j \in 1..Len(a.matches) : CharClassTypeEq(a.matches[j], b.matches[j])
         [] OTHER -> TRUE

\* PartialEq of GlobPattern: the token slices are equal.
GlobPatternEq(a, b) ==
    /\ Len(a.tokens) = Len(b.tokens)
    /\ \A k \in 1..Len(a.tokens) : GlobTokenEq(a.tokens[k], b.tokens[k])

\* A pattern emitted by glob! and a candidate to match against it.
InitStatic ==
    /\ \E p \in MatchPatterns, overflow_checks \in BOOLEAN :
        \E lit \in MacroInputs(p) :
           LET g == Glob(lit, overflow_checks)
           IN  /\ g.tag = "Ok"
               /\ pattern = ParseInput(lit, overflow_checks).val
               /\ sc = [Compile(pattern) EXCEPT !.tokens = g.pattern.tokens]
    /\ name \in Names
    /\ m = MatchInit(name)

NextStatic ==
    \/ MatchOuter
    \/ MatchStar

SpecStatic == InitStatic /\ [][NextStatic]_vars

\* C20: the pattern glob! builds from borrowed static token data is equal,
\* by PartialEq, to the pattern GlobPattern::new builds from the same pattern
\* string, and matching a candidate against it returns what matching the
\* candidate against that pattern returns.
C20_StaticEquivalent ==
    /\ GlobPatternEq([tokens |-> Tokens, cow |-> "Borrowed"], GlobPatternNew(pattern))
    /\ GlobPatternEq(GlobPatternNew(pattern), [tokens |-> Tokens, cow |-> "Borrowed"])
    /\ Returned => m.result[1] = Matches(GlobPatternNew(pattern).tokens, name)

\* A static pattern with a borrowed negated class and a borrowed literal has
\* matched a candidate.
C20_Witness ==
    /\ Returned /\ m.result = <<TRUE>>
    /\ \E k \in 1..Len(Tokens) :
           Tokens[k].type = "CharClass" /\ Tokens[k].negated /\ Tokens[k].cow = "Borrowed"
    /\ \E k \in 1..Len(Tokens) : Tokens[k].type = "Literal" /\ Tokens[k].cow = "Borrowed"
    /\ Tokens # GlobPatternNew(pattern).tokens

\* ---------------------------------------------------------------------
\* Class members, in the text and in the token.

\* The index of the character of p that starts at byte offset i.
CharIndex(p, i) == CHOOSE k \in 1..Len(p) : ByteOff(p, k) = i

\* The indices of the member characters written in the class that the
\* scanner is about to close: every escaped character and every unescaped
\* character other than '\' and '-', after the '[' or '[^'.
MemberIndices ==
    LET first == CharIndex(pattern, sc.start_i) + (IF sc.negated THEN 2 ELSE 1)
    IN  {k \in first..(sc.pos - 1) :
            EscapedAt(pattern, k) \/ pattern[k] \notin {Backslash, Minus}}

\* The indices of the range-forming '-' written in that class.
RangeIndices ==
    LET first == CharIndex(pattern, sc.start_i) + (IF sc.negated THEN 2 ELSE 1)
    IN  {k \in first..(sc.pos - 1) : pattern[k] = Minus /\ ~EscapedAt(pattern, k)}

\* C21: no class member is dropped. When a class closes and compiles, its
\* token holds one item for each member written on its own and one for each
\* lo-hi (a range takes two members), and the class that is not negated
\* accepts every member character written between the brackets.
C21_NoMemberDropped ==
    [][(ClassReads(RBracket) /\ sc'.pc # "err")
       => LET cc == sc'.tokens[Len(sc'.tokens)]
          IN  /\ Len(sc'.tokens) = Len(sc.tokens) + 1
              /\ cc.type = "CharClass"
              /\ Len(cc.matches) = Cardinality(MemberIndices) - Cardinality(RangeIndices)
              /\ \A k \in MemberIndices :
                     MatchesChar(CharClass(FALSE, cc.matches), pattern[k])]_vars

\* ---------------------------------------------------------------------
\* The search for the split of a SeqWildcard.

\* The segment after token cursor ti: the tokens up to the next SeqWildcard,
\* or to the end, and whether a SeqWildcard ends it.
SegmentEnd(tokens, ti) ==
    IF \E j \in (ti + 1)..Len(tokens) : tokens[j].type = "SeqWildcard"
    THEN (CHOOSE j \in (ti + 1)..Len(tokens) :
            /\ tokens[j].type = "SeqWildcard"
            /\ \A l \in (ti + 1)..(j - 1) : tokens[l].type # "SeqWildcard") - 1
    ELSE Len(tokens)

\* The segment after cursor ti matches at the start of s: its tokens split a
\* prefix of s, the whole of s when no SeqWildcard follows the segment.
SegmentMatches(tokens, ti, s) ==
    LET e == SegmentEnd(tokens, ti)
        seg == SubSeq(tokens, ti + 1, e)
    IN  IF e = Len(tokens) THEN CanSplit(seg, s)
        ELSE \E n \in 0..Len(s) : CanSplit(seg, SubSeq(s, 1, n))

\* C22: a SeqWildcard that is not the last token is resolved by trying its
\* segment at the offsets of the remaining string in increasing order from 0:
\* the offsets tried so far are those of the characters before the current
\* one, none of them a '/', so the offset of the first '/' is the last one
\* that can be tried; the first offset where the segment matches is taken,
\* and when the segment fails at a '/' or at the last character matches
\* returns false.
C22_SplitOrder ==
    [][/\ (m.pc = "outer" /\ m'.pc = "star")
          => m'.k = 1 /\ m'.tried = <<>> /\ m'.next = m.next
       /\ m.pc = "star"
          => LET i == ByteOff(m.next, m.k)
                 ok == SegmentMatches(Tokens, m.ti, SubSeq(m.next, m.k, Len(m.next)))
             IN  /\ m.tried = [j \in 1..(m.k - 1) |-> ByteOff(m.next, j)]
                 /\ \A j \in 1..(m.k - 1) : m.next[j] # Slash
                 /\ m'.tried = Append(m.tried, i)
                 /\ IF ok THEN m'.pc = "outer"
                    ELSE IF m.next[m.k] = Slash \/ m.k = Len(m.next)
                    THEN m'.pc = "done" /\ m'.result = <<FALSE>>
                    ELSE m'.pc = "star" /\ m'.k = m.k + 1 /\ m'.next = m.next]_vars

\* The segment of a leading SeqWildcard failed at offset 0 and was accepted
\* at the offset of the first '/' of the candidate.
C22_Witness ==
    /\ Returned /\ m.result = <<TRUE>>
    /\ Tokens[1].type = "SeqWildcard" /\ ~HasSeqWildcard(Tail(Tokens))
    /\ Len(m.tried) >= 2 /\ name[Len(m.tried)] = Slash

\* C23: a failed attempt at a split offset leaves the outer search state as
\* it was. While a SeqWildcard is resolved the outer token cursor and the
\* remaining string keep their values through every failed attempt, also in
\* the state matches returns false from; they are replaced, by the cursor
\* after the segment and the string after what the segment consumed, only by
\* an accepted attempt.
C23_FailedAttemptFrame ==
    [][m.pc = "star"
       => LET s == SubSeq(m.next, m.k, Len(m.next))
              e == SegmentEnd(Tokens, m.ti)
              seg == SubSeq(Tokens, m.ti + 1, e)
          IN  IF SegmentMatches(Tokens, m.ti, s)
              THEN /\ m'.pc = "outer" /\ m'.ti = e
                   /\ \E n \in 0..Len(s) :
                          /\ CanSplit(seg, SubSeq(s, 1, n))
                          /\ m'.next = SubSeq(s, n + 1, Len(s))
              ELSE /\ m'.pc \in {"star", "done"}
                   /\ m'.ti = m.ti /\ m'.next = m.next]_vars

\* An attempt that consumed a token on its own copy of the cursor before it
\* failed has been made, and the search goes on from the outer state.
C23_Witness ==
    /\ m.pc = "star" /\ m.k = 2
    /\ LET a == InnerLoop(Tokens, m.ti, m.next)
       IN  a.fail /\ a.tokens_peek > m.ti /\ a.next_peek # m.next

\* ---------------------------------------------------------------------
\* Error positions.

\* The character at index k of p is a backslash that escapes the next one.
IsEscape(p, k) == p[k] = Backslash /\ ~EscapedAt(p, k)

\* Index k of the pattern holds the offending character of the error e.
Offending(e, k) ==
    CASE e.kind = "UnclosedCharClass" ->
            pattern[k] = LBracket /\ ~EscapedAt(pattern, k)
      [] e.kind = "IllegalEscape" ->
            IsEscape(pattern, k) /\ k = Len(pattern)
      [] e.kind = "UnescapedChar" ->
            pattern[k] = e.chars[1] /\ ~EscapedAt(pattern, k)
      [] e.kind = "InvalidRangeValues" ->
            /\ pattern[k] = e.chars[2] /\ ~IsEscape(pattern, k)
            /\ \/ k > 1 /\ pattern[k - 1] = Minus /\ ~EscapedAt(pattern, k - 1)
               \/ k > 2 /\ EscapedAt(pattern, k) /\ pattern[k - 2] = Minus
                        /\ ~EscapedAt(pattern, k - 2)
      [] OTHER -> FALSE

\* C24: the position of every positioned error is the UTF-8 byte offset of
\* the offending character of the pattern: the '[' of an unclosed class, the
\* backslash of an illegal escape, the ']' or '-' of UnescapedChar and the
\* upper bound of an invalid range, the escaped character itself when the
\* bound is written with an escape.
C24_ByteOffsets ==
    (Failed /\ sc.err[1].kind # "EmptyPattern")
    => \E k \in 1..Len(pattern) :
           sc.err[1].pos = ByteOff(pattern, k) /\ Offending(sc.err[1], k)

\* ---------------------------------------------------------------------
\* The message of each kind of error.

\* The message templates, with POS the position in decimal and lo, hi, c the
\* characters of the payload.
Template(e) ==
    CASE e.kind = "EmptyPattern" -> <<"empty pattern">>
      [] e.kind = "IllegalEscape" ->
            <<"illegal use of '\\' at ", Decimal(e.pos), ": end of pattern">>
      [] e.kind = "InvalidRangeValues" ->
            <<"invalid character range at ", Decimal(e.pos), ": ",
              <<e.chars[1]>>, "-", <<e.chars[2]>>>>
      [] e.kind = "UnclosedCharClass" ->
            <<"character class opened with '[' at ", Decimal(e.pos), " isn't closed">>
      [] e.kind = "UnescapedChar" ->
            <<"special character ", <<e.chars[1]>>, " at ", Decimal(e.pos),
              " not escaped with '\\'">>

\* C25: the rendering of the Error a failed compile returns is the message
\* template of its kind, filled with the error's position and payload.
C25_Templates == Failed => DisplayError(sc.err[1]) = Template(sc.err[1])

\* ---------------------------------------------------------------------
\* The direction of the search.

IsSuffix(s, t) == Len(s) <= Len(t) /\ s = SubSeq(t, Len(t) - Len(s) + 1, Len(t))

\* C26: the search only moves forward. The unconsumed string is always a
\* suffix of the candidate and of what it was one step before, the outer
\* token cursor never decreases, the offsets of one SeqWildcard are tried
\* forwards, and a SeqWildcard is entered by moving the cursor past it, so
\* that after its segment is accepted the cursor never comes back to it: its
\* split is not revisited.
C26_ForwardOnly ==
    [][/\ IsSuffix(m.next, name) /\ IsSuffix(m'.next, m.next)
       /\ m'.ti >= m.ti
       /\ (m.pc = "outer" /\ m'.pc = "star")
          => m'.ti = m.ti + 1 /\ Tokens[m'.ti].type = "SeqWildcard"
       /\ (m.pc = "star" /\ m'.pc = "star") => m'.k > m.k
       /\ (m.pc = "star" /\ m'.pc = "outer")
          => /\ Tokens[m.ti].type = "SeqWildcard" /\ m'.ti >= m.ti
             /\ IsSuffix(m'.next, SubSeq(m.next, m.k, Len(m.next)))]_vars

\* After the split of a first SeqWildcard was accepted, matches returned
\* false further on without going back to it.
C26_Witness ==
    /\ Returned /\ m.result = <<FALSE>>
    /\ Tokens[1].type = "SeqWildcard" /\ m.ti >= 3
    /\ Tokens[m.ti].type = "SeqWildcard"

\* ---------------------------------------------------------------------
\* The assertion of the 'char_cls loop.

\* C27: debug_assert!(!start_range || c == '-') never fails. At the top of
\* the 'char_cls loop the flag start_range is set only when the next unread
\* character is an unescaped '-'; reading that '-' clears the flag.
C27_AssertHolds ==
    [][/\ sc'.pc # "panic"
       /\ (sc'.pc = "char_cls" /\ sc'.start_range)
          => /\ sc'.pos <= Len(pattern) /\ pattern[sc'.pos] = Minus
             /\ ~EscapedAt(pattern, sc'.pos)
       /\ (sc.pc = "char_cls" /\ sc.start_range)
          => sc'.pc = "char_cls" /\ ~sc'.start_range /\ sc'.pos = sc.pos + 1]_vars

\* The flag was set before a '-' and cleared by reading it: the class loop
\* stands after the '-' with the lower bound pending.
C27_Witness ==
    /\ sc.pc = "char_cls" /\ ~sc.start_range /\ sc.in_range # <<>>
    /\ pattern[sc.pos - 1] = Minus /\ ~EscapedAt(pattern, sc.pos - 1)

\* ---------------------------------------------------------------------
\* Tokens and the path separator.

\* C28: only the wildcards treat '/' specially. With a '/' at the start of
\* the unconsumed string, a Literal whose text the string starts with
\* consumes it, '/' included; a CharClass consumes the '/' exactly when its
\* items and negation accept '/'; a SingleWildcard fails; a SeqWildcard
\* leaves the '/' in place, and the piece an accepted split gives to a
\* SeqWildcard holds no '/'.
C28_SlashOnlyWildcards ==
    [][/\ (m.pc = "outer" /\ m.ti < Len(Tokens) /\ m.next # <<>> /\ m.next[1] = Slash)
          => LET t == Tokens[m.ti + 1]
                 consumed(n) == /\ m'.pc = "outer" /\ m'.ti = m.ti + 1
                                /\ m'.next = SubSeq(m.next, n + 1, Len(m.next))
                 rejected == m'.pc = "done" /\ m'.result = <<FALSE>>
             IN  CASE t.type = "Literal" ->
                        IF Len(t.text) <= Len(m.next)
                              /\ SubSeq(m.next, 1, Len(t.text)) = t.text
                        THEN consumed(Len(t.text)) /\ t.text[1] = Slash
                        ELSE rejected
                   [] t.type = "CharClass" ->
                        IF Accepts(t, Slash) THEN consumed(1) ELSE rejected
                   [] t.type = "SingleWildcard" -> rejected
                   [] t.type = "SeqWildcard" ->
                        IF m.ti + 1 = Len(Tokens) THEN rejected
                        ELSE m'.pc = "star" /\ m'.next = m.next
       /\ (m.pc = "star" /\ m'.pc = "outer")
          => NoSlashIn(SubSeq(m.next, 1, m.k - 1))]_vars

\* A negated class that does not list '/' has consumed the '/' of the
\* candidate.
C28_Witness ==
    /\ Returned /\ m.result = <<TRUE>> /\ m.ret = "end"
    /\ Len(Tokens) = 1 /\ Tokens[1].type = "CharClass" /\ Tokens[1].negated
    /\ name = <<Slash>>

====
